---- MODULE Spec2Model ----
(***************************************************************************)
(* Archimedes: YieldOptimizerHook (idle-liquidity ledger, volume tracking, *)
(* administration), BasketSwapper, and the client-side quote engine, path  *)
(* selector and swap executor.                                             *)
(***************************************************************************)
EXTENDS Integers, Sequences, FiniteSets, TLC

(***************************************************************************)
(* Bounds of the model.                                                    *)
(***************************************************************************)
MaxPositions == 2   \* most IdlePosition entries held at once, over all pools
MaxInvested == 2    \* cap on the sum of totalInvestedAmount over all pools
MaxVolume == 2      \* cap on the sum of poolVolume over all pools
MaxSwap == 2        \* largest |amountSpecified| of an exchange
MaxTime == 1        \* latest block.timestamp
InitialBalance == 2 \* the trader's holding of each input token at deployment
MaxLegs == 2        \* longest basket
MaxTotal == 20      \* deposits 0..MaxTotal are all tried, next to a few large ones
MaxDust == 3        \* quantities of 1..MaxDust units of 10^-8 are all tried
MaxInputs == 2      \* most inputs of one basket request
MaxAccepts == 3     \* most wallet prompts the user confirms during one request
MaxRecallPositions == 3 \* most positions a pool holds when exchanges recall from it
MaxRecallAmount == 2    \* largest amount of one such position
MaxHolding == 3     \* holdings of 0..MaxHolding units are all tried, next to multiples of WAD
MaxTokens == 2      \* most balances handed to the rebalancer at once

(***************************************************************************)
(* Identities, pools, venues.                                              *)
(***************************************************************************)
ZeroAddress == "0x0"
Deployer == "a1"
Callers == {"a1", "a2", "a3"}          \* msg.sender is never the zero address
BackendChoices == {ZeroAddress, "a2"}
PoolList == <<"p1", "p2">>
Pools == {PoolList[n] : n \in 1..Len(PoolList)}
\* (platform, currency) pairs handed to investIdleLiquidity
Venues == {<<"aave", "c0">>}
ThresholdChoices == {0, 10}
Users == {"a2", "a3"}
AllocationChoices == {0, 3000, 5000, 5001, 10000}

VARIABLES
    owner,                      \* address public owner
    backendService,             \* address public backendService
    userInvestmentAllocation,   \* mapping(address => uint256)
    volumeThresholds,           \* mapping(PoolId => uint256)
    lastVolumeCheck,            \* mapping(PoolId => uint256)
    poolVolume,                 \* mapping(PoolId => uint256)
    idlePositions,              \* mapping(PoolId => IdlePosition[])
    totalInvestedAmount,        \* mapping(PoolId => uint256)
    now,                        \* block.timestamp
    last,                       \* the last call: [op, err], for a basket also its legs
    balanceOf,                  \* ERC-20 balances: token -> holder -> amount
    allowance,                  \* ERC-20 allowances: token -> <<owner, spender>> -> amount
    reserves,                   \* pool manager: pool -> token -> liquidity held
    call,                       \* client side: the function called and its arguments
    ret,                        \* client side: what the call returned or threw
    submitted                   \* client side: transactions handed to the wallet by the call

hookVars == <<owner, backendService, userInvestmentAllocation, volumeThresholds,
              lastVolumeCheck, poolVolume, idlePositions, totalInvestedAmount>>
tokenVars == <<balanceOf, allowance, reserves>>
clientVars == <<call, ret, submitted>>
vars == <<hookVars, now, last, tokenVars, clientVars>>

RECURSIVE SumAmounts(_)
SumAmounts(positions) ==
    IF positions = <<>> THEN 0
    ELSE Head(positions).amount + SumAmounts(Tail(positions))

\* the sum of a per-pool mapping over the first n pools
RECURSIVE SumOver(_, _)
SumOver(f, n) == IF n = 0 THEN 0 ELSE f[PoolList[n]] + SumOver(f, n - 1)

RECURSIVE PositionCount(_)
PositionCount(n) ==
    IF n = 0 THEN 0 ELSE Len(idlePositions[PoolList[n]]) + PositionCount(n - 1)

Result(op, err) == [op |-> op, err |-> err]

(***************************************************************************)
(* Modifiers.                                                              *)
(***************************************************************************)
\* mutant: the backend service is let through the owner gate
onlyOwnerOrBackend(caller) == caller = owner \/ caller = backendService

onlyOwner(caller) == caller = owner

\* mutant: the owner is let through the backend gate
onlyBackendOrOwner(caller) == caller = backendService \/ caller = owner

onlyBackend(caller) == caller = backendService

(***************************************************************************)
(* Administration.                                                         *)
(***************************************************************************)
setBackendService(caller, _backendService) ==
    /\ IF ~onlyOwner(caller)
       THEN /\ last' = Result("setBackendService", "Unauthorized")
            /\ UNCHANGED backendService
       ELSE /\ backendService' = _backendService
            /\ last' = Result("setBackendService", "ok")
    /\ UNCHANGED <<owner, userInvestmentAllocation, volumeThresholds, lastVolumeCheck,
                   poolVolume, idlePositions, totalInvestedAmount, now, tokenVars, clientVars>>

\* mutant: the ceiling is 100% instead of 50%
AllocationAcceptedTo100(allocation) == ~(allocation > 10000)

AllocationAccepted(allocation) == ~(allocation > 5000)

setUserInvestmentAllocation(caller, user, allocation) ==
    /\ IF ~onlyOwner(caller)
       THEN /\ last' = Result("setUserInvestmentAllocation", "Unauthorized")
            /\ UNCHANGED userInvestmentAllocation
       ELSE IF ~AllocationAccepted(allocation)
       THEN /\ last' = Result("setUserInvestmentAllocation", "InvalidBasket")
            /\ UNCHANGED userInvestmentAllocation
       ELSE /\ userInvestmentAllocation' =
                   [userInvestmentAllocation EXCEPT ![user] = allocation]
            /\ last' = Result("setUserInvestmentAllocation", "ok")
    /\ UNCHANGED <<owner, backendService, volumeThresholds, lastVolumeCheck,
                   poolVolume, idlePositions, totalInvestedAmount, now, tokenVars, clientVars>>

setVolumeThreshold(caller, poolId, threshold) ==
    /\ IF ~onlyOwner(caller)
       THEN /\ last' = Result("setVolumeThreshold", "Unauthorized")
            /\ UNCHANGED volumeThresholds
       ELSE /\ volumeThresholds' = [volumeThresholds EXCEPT ![poolId] = threshold]
            /\ last' = Result("setVolumeThreshold", "ok")
    /\ UNCHANGED <<owner, backendService, userInvestmentAllocation, lastVolumeCheck,
                   poolVolume, idlePositions, totalInvestedAmount, now, tokenVars, clientVars>>

(***************************************************************************)
(* Backend-callable investment functions.                                  *)
(***************************************************************************)
IdlePosition(platform, currency, amount, timestamp) ==
    [platform |-> platform, currency |-> currency, amount |-> amount,
     timestamp |-> timestamp]

investIdleLiquidity(caller, poolId, currency, amount, platform) ==
    /\ IF ~onlyBackend(caller)
       THEN /\ last' = Result("investIdleLiquidity", "Unauthorized")
            /\ UNCHANGED <<idlePositions, totalInvestedAmount>>
       ELSE /\ last' = Result("investIdleLiquidity", "ok")
            /\ PositionCount(Len(PoolList)) < MaxPositions
            /\ SumOver(totalInvestedAmount, Len(PoolList)) + amount <= MaxInvested
            /\ idlePositions' = [idlePositions EXCEPT ![poolId] =
                   Append(@, IdlePosition(platform, currency, amount, now))]
            /\ totalInvestedAmount' = [totalInvestedAmount EXCEPT ![poolId] = @ + amount]
    /\ UNCHANGED <<owner, backendService, userInvestmentAllocation, volumeThresholds,
                   lastVolumeCheck, poolVolume, now, tokenVars, clientVars>>

\* mutant: the entry is cut out and the later entries move down by one
RemoveAndShift(positions, positionIndex) ==
    SubSeq(positions, 1, positionIndex) \o SubSeq(positions, positionIndex + 2, Len(positions))

\* positions[positionIndex] = positions[positions.length - 1]; positions.pop();
\* (positionIndex is 0-based as in the contract)
SwapAndPop(positions, positionIndex) ==
    LET moved == [positions EXCEPT ![positionIndex + 1] = positions[Len(positions)]]
    IN  SubSeq(moved, 1, Len(positions) - 1)

WithdrawFrom(positions, positionIndex, amount) ==
    LET reduced == [positions EXCEPT ![positionIndex + 1].amount = @ - amount]
    IN  IF reduced[positionIndex + 1].amount = 0
        THEN SwapAndPop(reduced, positionIndex)
        ELSE reduced

\* mutant: the remaining amount of the position is not checked
WithdrawErrorNoAmountCheck(caller, poolId, positionIndex, amount) ==
    IF ~onlyBackend(caller) THEN "Unauthorized"
    ELSE IF ~(positionIndex < Len(idlePositions[poolId])) THEN "Invalid position"
    ELSE "ok"

\* mutant: the amount is checked against the pool's invested total, not against
\* what the position still holds
WithdrawErrorAgainstTotal(caller, poolId, positionIndex, amount) ==
    IF ~onlyBackend(caller) THEN "Unauthorized"
    ELSE IF ~(positionIndex < Len(idlePositions[poolId])) THEN "Invalid position"
    ELSE IF totalInvestedAmount[poolId] < amount THEN "Panic"
    ELSE "ok"

\* The modifier, the two requires and the checked subtraction of the total.
WithdrawError(caller, poolId, positionIndex, amount) ==
    IF ~onlyBackend(caller) THEN "Unauthorized"
    ELSE IF ~(positionIndex < Len(idlePositions[poolId])) THEN "Invalid position"
    ELSE IF ~(idlePositions[poolId][positionIndex + 1].amount >= amount)
    THEN "Insufficient invested amount"
    ELSE IF totalInvestedAmount[poolId] < amount THEN "Panic"
    ELSE "ok"

\* event LiquidityRecalled(poolId, platform, currency, amount)
LiquidityRecalled(poolId, platform, currency, amount) ==
    [poolId |-> poolId, platform |-> platform, currency |-> currency, amount |-> amount]

\* What the storage reference `position` (slot positionIndex of the list) reads
\* once the withdrawal has updated the list: the reduced entry after a partial
\* withdrawal, the entry moved into the slot after a full one, and cleared
\* storage when the slot itself was the one popped (pop deletes the element).
PositionSlot(positions, positionIndex) ==
    IF positionIndex < Len(positions)
    THEN positions[positionIndex + 1]
    ELSE IdlePosition(ZeroAddress, ZeroAddress, 0, 0)

\* The event is emitted last, from `position`, after the swap-and-pop.
WithdrawEvent(positions, poolId, positionIndex, amount) ==
    LET position == PositionSlot(WithdrawFrom(positions, positionIndex, amount),
                                 positionIndex)
    IN  LiquidityRecalled(poolId, position.platform, position.currency, amount)

withdrawInvestedLiquidity(caller, poolId, positionIndex, amount) ==
    /\ LET err == WithdrawError(caller, poolId, positionIndex, amount)
       IN  /\ IF err # "ok"
              THEN /\ last' = Result("withdrawInvestedLiquidity", err)
                   /\ UNCHANGED <<idlePositions, totalInvestedAmount>>
              ELSE /\ last' = [op |-> "withdrawInvestedLiquidity", err |-> "ok",
                               event |-> WithdrawEvent(idlePositions[poolId], poolId,
                                                       positionIndex, amount)]
                   /\ idlePositions' = [idlePositions EXCEPT ![poolId] =
                          WithdrawFrom(@, positionIndex, amount)]
                   /\ totalInvestedAmount' =
                          [totalInvestedAmount EXCEPT ![poolId] = @ - amount]
    /\ UNCHANGED <<owner, backendService, userInvestmentAllocation, volumeThresholds,
                   lastVolumeCheck, poolVolume, now, tokenVars, clientVars>>

(***************************************************************************)
(* Hook callbacks.  The callbacks are written over an explicit hook state  *)
(* h (a record of the storage they touch) so that several exchanges of one *)
(* transaction can be chained.                                             *)
(***************************************************************************)
HookState ==
    [volumeThresholds |-> volumeThresholds, lastVolumeCheck |-> lastVolumeCheck,
     poolVolume |-> poolVolume, idlePositions |-> idlePositions,
     totalInvestedAmount |-> totalInvestedAmount]

\* mutant: every exchange counts as large
getLargeSwapThresholdZero(h, poolId) == 0

getLargeSwapThreshold(h, poolId) == h.volumeThresholds[poolId] \div 10

\* mutant: a position is always recalled whole
RECURSIVE RecallLoopWholePositions(_, _, _, _)
RecallLoopWholePositions(positions, i, recalled, requiredAmount) ==
    IF ~(i < Len(positions) /\ recalled < requiredAmount) THEN positions
    ELSE RecallLoopWholePositions([positions EXCEPT ![i + 1].amount = 0],
                                  i + 1, recalled + positions[i + 1].amount,
                                  requiredAmount)

RECURSIVE RecallLoop(_, _, _, _)
RecallLoop(positions, i, recalled, requiredAmount) ==
    IF ~(i < Len(positions) /\ recalled < requiredAmount) THEN positions
    ELSE LET amt == positions[i + 1].amount
             toRecall == IF recalled + amt > requiredAmount
                         THEN requiredAmount - recalled
                         ELSE amt
         IN  RecallLoop([positions EXCEPT ![i + 1].amount = @ - toRecall],
                        i + 1, recalled + toRecall, requiredAmount)

recallLiquidityFromYield(h, poolId, requiredAmount) ==
    [h EXCEPT !.idlePositions[poolId] = RecallLoop(@, 0, 0, requiredAmount)]

Abs(x) == IF x < 0 THEN -x ELSE x

\* mutant: the signed quantity is added to the volume and no stamp is written
beforeSwapSigned(h, poolId, amountSpecified, timestamp) ==
    LET swapAmount == Abs(amountSpecified)
        recalled == IF swapAmount > getLargeSwapThreshold(h, poolId)
                    THEN recallLiquidityFromYield(h, poolId, swapAmount)
                    ELSE h
    IN  [recalled EXCEPT !.poolVolume[poolId] = @ + amountSpecified]

beforeSwap(h, poolId, amountSpecified, timestamp) ==
    LET swapAmount == Abs(amountSpecified)
        recalled == IF swapAmount > getLargeSwapThreshold(h, poolId)
                    THEN recallLiquidityFromYield(h, poolId, swapAmount)
                    ELSE h
    IN  [recalled EXCEPT !.poolVolume[poolId] = @ + swapAmount,
                         !.lastVolumeCheck[poolId] = timestamp]

afterSwap(h, poolId, amountSpecified) == h

beforeAddLiquidity(h, poolId, timestamp) ==
    [h EXCEPT !.lastVolumeCheck[poolId] = timestamp]

StoreHook(h) ==
    /\ volumeThresholds' = h.volumeThresholds
    /\ lastVolumeCheck' = h.lastVolumeCheck
    /\ poolVolume' = h.poolVolume
    /\ idlePositions' = h.idlePositions
    /\ totalInvestedAmount' = h.totalInvestedAmount

\* One exchange through the pool manager: beforeSwap, the exchange, afterSwap.
Swap(poolId, amountSpecified) ==
    /\ last' = Result("swap", "ok")
    /\ SumOver(poolVolume, Len(PoolList)) + Abs(amountSpecified) <= MaxVolume
    /\ StoreHook(afterSwap(beforeSwap(HookState, poolId, amountSpecified, now),
                           poolId, amountSpecified))
    /\ UNCHANGED <<owner, backendService, userInvestmentAllocation, now, tokenVars, clientVars>>

\* One liquidity addition through the pool manager.
AddLiquidity(poolId) ==
    /\ StoreHook(beforeAddLiquidity(HookState, poolId, now))
    /\ last' = Result("addLiquidity", "ok")
    /\ UNCHANGED <<owner, backendService, userInvestmentAllocation, now, tokenVars, clientVars>>

\* A later block.
Tick ==
    /\ now < MaxTime
    /\ now' = now + 1
    /\ last' = Result("tick", "ok")
    /\ UNCHANGED <<hookVars, tokenVars, clientVars>>

(***************************************************************************)
(* Tokens, the pool manager and the swap router.  These are the external   *)
(* collaborators of the core (solmate MockERC20, Uniswap v4 PoolManager,   *)
(* Hookmate router); they are modelled at their interface: an exchange     *)
(* either completes as a whole or reverts as a whole.  Every pool trades   *)
(* one input token against the common output token OUT at 1:1 as long as   *)
(* it holds enough OUT.                                                    *)
(***************************************************************************)
Tokens == {"T1", "T2", "OUT"}
Trader == "a3"
Holders == {"a3", "swapper"}
Receivers == {"a3"}
Spenders == {"swapper", "router"}
MAX_UINT256 == 255      \* type(uint256).max, scaled down
\* currency0 and currency1 of the initialised pools (currency0 < currency1)
PoolKeys == [p1 |-> [currency0 |-> "OUT", currency1 |-> "T1"],
             p2 |-> [currency0 |-> "T2", currency1 |-> "OUT"]]

World ==
    [balanceOf |-> balanceOf, allowance |-> allowance, reserves |-> reserves,
     hook |-> HookState, hookCalls |-> 0,
     approvals |-> [t \in Tokens |-> 0]]    \* approve(router, ..) calls of the transaction

Fail(w) == [ok |-> FALSE, w |-> w]
Done(w) == [ok |-> TRUE, w |-> w]

\* ERC20.approve, called by owner
Approve(w, token, holder, spender, amount) ==
    [w EXCEPT !.allowance[token][<<holder, spender>>] = amount]

\* token.approve(address(router), amount) called by the BasketSwapper
ApproveRouter(w, token, amount) ==
    [Approve(w, token, "swapper", "router", amount) EXCEPT !.approvals[token] = @ + 1]

\* mutant: the router is approved on every leg
AllowanceAlwaysShort(allowed, amountIn) == TRUE

\* if (token.allowance(address(this), address(router)) < inputs[i].amountIn)
AllowanceShort(allowed, amountIn) == allowed < amountIn

\* ERC20.transferFrom(from, to, amount) called by spender: reverts when the
\* allowance or the balance is short; an unlimited allowance is not reduced.
TransferFrom(w, token, spender, from, to, amount) ==
    IF w.allowance[token][<<from, spender>>] < amount \/ w.balanceOf[token][from] < amount
    THEN Fail(w)
    ELSE LET spent == IF w.allowance[token][<<from, spender>>] = MAX_UINT256
                      THEN w
                      ELSE [w EXCEPT !.allowance[token][<<from, spender>>] = @ - amount]
             debited == [spent EXCEPT !.balanceOf[token][from] = @ - amount]
         IN  Done(IF to \in Holders
                  THEN [debited EXCEPT !.balanceOf[token][to] = @ + amount]
                  ELSE debited)

InputCurrency(leg) ==
    IF leg.zeroForOne THEN PoolKeys[leg.poolKey].currency0
    ELSE PoolKeys[leg.poolKey].currency1

OutputCurrency(leg) ==
    IF leg.zeroForOne THEN PoolKeys[leg.poolKey].currency1
    ELSE PoolKeys[leg.poolKey].currency0

\* The hook's part of one exchange of amountIn (exact input) on a pool.
SwapHook(h, poolId, amountSpecified, timestamp) ==
    afterSwap(beforeSwap(h, poolId, amountSpecified, timestamp), poolId, amountSpecified)

\* router.swapExactTokensForTokens(amountIn, amountOutMin, zeroForOne, poolKey,
\* hookData, receiver, deadline) called by payer.
RouterSwap(w, payer, leg, receiver, deadline, timestamp) ==
    IF timestamp > deadline THEN Fail(w)
    ELSE IF leg.poolKey \notin Pools THEN Fail(w)
    ELSE IF w.reserves[leg.poolKey][OutputCurrency(leg)] < leg.amountIn THEN Fail(w)
    ELSE IF leg.amountIn < leg.amountOutMin THEN Fail(w)
    ELSE LET hooked == [w EXCEPT !.hook = SwapHook(@, leg.poolKey, -leg.amountIn, timestamp),
                                 !.hookCalls = @ + 1]
             paid == TransferFrom(hooked, InputCurrency(leg), "router", payer,
                                  "poolManager", leg.amountIn)
         IN  IF ~paid.ok THEN Fail(w)
             ELSE Done([paid.w EXCEPT
                    !.reserves[leg.poolKey][InputCurrency(leg)] = @ + leg.amountIn,
                    !.reserves[leg.poolKey][OutputCurrency(leg)] = @ - leg.amountIn,
                    !.balanceOf[OutputCurrency(leg)][receiver] = @ + leg.amountIn])

(***************************************************************************)
(* BasketSwapper.  A run of the loop returns the world it reached, whether *)
(* the transaction reverted, and the first leg that failed (0: none).      *)
(***************************************************************************)
Ran(w, failedLeg, reverted) == [w |-> w, failedLeg |-> failedLeg, reverted |-> reverted]

\* mutant: the executor pays the receiver itself and never reaches the router
BasketLegBypassRouter(w, caller, leg, receiver, deadline, timestamp) ==
    LET pulled == TransferFrom(w, leg.token, "swapper", caller, "swapper", leg.amountIn)
    IN  IF ~pulled.ok \/ leg.poolKey \notin Pools THEN Fail(w)
        ELSE Done([pulled.w EXCEPT
               !.balanceOf[OutputCurrency(leg)][receiver] = @ + leg.amountIn])

\* BasketSwapper (interface call): one iteration of the loop.  A revert of
\* transferFrom or of the router propagates.
BasketLeg(w, caller, leg, receiver, deadline, timestamp) ==
    LET pulled == TransferFrom(w, leg.token, "swapper", caller, "swapper", leg.amountIn)
    IN  IF ~pulled.ok THEN Fail(w)
        ELSE LET approved ==
                     IF AllowanceShort(pulled.w.allowance[leg.token][<<"swapper", "router">>],
                                       leg.amountIn)
                     THEN ApproveRouter(pulled.w, leg.token, MAX_UINT256)
                     ELSE pulled.w
                 swapped == RouterSwap(approved, "swapper", leg, receiver, deadline,
                                       timestamp)
             IN  IF swapped.ok THEN swapped ELSE Fail(approved)

RECURSIVE BasketLoop(_, _, _, _, _, _, _)
BasketLoop(w, caller, inputs, i, receiver, deadline, timestamp) ==
    IF ~(i < Len(inputs)) THEN Ran(w, 0, FALSE)
    ELSE LET r == BasketLeg(w, caller, inputs[i + 1], receiver, deadline, timestamp)
         IN  IF ~r.ok THEN Ran(r.w, i + 1, TRUE)
             ELSE BasketLoop(r.w, caller, inputs, i + 1, receiver, deadline, timestamp)

\* mutant: the result of the low-level call is ignored
IgnoreCallResult(ok) == FALSE

\* if (!ok) { revert(...) }
RevertsOnFailedCall(ok) == ~ok

\* BasketSwapper (low-level call): the loop.  transferFrom and approve are
\* interface calls; the router is reached through router.call, whose failure
\* undoes the router's own effects only and is then turned into a revert.
RECURSIVE BasketLoopLowLevel(_, _, _, _, _, _, _, _)
BasketLoopLowLevel(w, caller, inputs, i, receiver, deadline, timestamp, failedLeg) ==
    IF ~(i < Len(inputs)) THEN Ran(w, failedLeg, FALSE)
    ELSE LET leg == inputs[i + 1]
             pulled == TransferFrom(w, leg.token, "swapper", caller, "swapper",
                                    leg.amountIn)
             approved == ApproveRouter(pulled.w, leg.token, leg.amountIn)
             swapped == RouterSwap(approved, "swapper", leg, receiver, deadline, timestamp)
             failed == IF failedLeg = 0 /\ ~swapped.ok THEN i + 1 ELSE failedLeg
         IN  IF ~pulled.ok THEN Ran(w, IF failedLeg = 0 THEN i + 1 ELSE failedLeg, TRUE)
             ELSE IF RevertsOnFailedCall(swapped.ok) THEN Ran(approved, failed, TRUE)
             ELSE BasketLoopLowLevel(IF swapped.ok THEN swapped.w ELSE approved, caller,
                                     inputs, i + 1, receiver, deadline, timestamp, failed)

\* The same legs as standalone exchanges: the trader, having approved the router
\* for the input token, calls the router once per leg, in order.
RECURSIVE StandaloneLoop(_, _, _, _, _, _, _)
StandaloneLoop(w, caller, inputs, i, receiver, deadline, timestamp) ==
    IF ~(i < Len(inputs)) THEN Ran(w, 0, FALSE)
    ELSE LET leg == inputs[i + 1]
             r == RouterSwap(Approve(w, leg.token, caller, "router", MAX_UINT256),
                             caller, leg, receiver, deadline, timestamp)
         IN  IF ~r.ok THEN Ran(r.w, i + 1, TRUE)
             ELSE StandaloneLoop(r.w, caller, inputs, i + 1, receiver, deadline, timestamp)

StoreWorld(w) ==
    /\ balanceOf' = w.balanceOf
    /\ allowance' = w.allowance
    /\ reserves' = w.reserves
    /\ StoreHook(w.hook)

\* The end of a transaction: a revert restores the state the call started from.
Commit(op, run, legs) ==
    /\ IF run.reverted
       THEN /\ last' = [op |-> op, err |-> "reverted", legs |-> legs,
                        failedLeg |-> run.failedLeg, hookCalls |-> 0,
                        approvals |-> run.w.approvals]
            /\ UNCHANGED <<balanceOf, allowance, reserves, volumeThresholds,
                           lastVolumeCheck, poolVolume, idlePositions,
                           totalInvestedAmount>>
       ELSE /\ last' = [op |-> op, err |-> "ok", legs |-> legs,
                        failedLeg |-> run.failedLeg, hookCalls |-> run.w.hookCalls,
                        approvals |-> run.w.approvals]
            /\ StoreWorld(run.w)

\* BasketSwapper.basketSwap (interface-call version)
basketSwap(caller, inputs, receiver, deadline) ==
    /\ Commit("basketSwap", BasketLoop(World, caller, inputs, 0, receiver, deadline, now),
              Len(inputs))
    /\ UNCHANGED <<owner, backendService, userInvestmentAllocation, now, clientVars>>

\* BasketSwapper.basketSwap (low-level-call version)
basketSwapLowLevel(caller, inputs, receiver, deadline) ==
    /\ Commit("basketSwapLowLevel",
              BasketLoopLowLevel(World, caller, inputs, 0, receiver, deadline, now, 0),
              Len(inputs))
    /\ UNCHANGED <<owner, backendService, userInvestmentAllocation, now, clientVars>>

\* The trader grants a spender an unlimited allowance (what the client submits).
approve(caller, token, spender) ==
    /\ StoreWorld(Approve(World, token, caller, spender, MAX_UINT256))
    /\ last' = Result("approve", "ok")
    /\ UNCHANGED <<owner, backendService, userInvestmentAllocation, now, clientVars>>

\* State after deployment: the trader holds the two input tokens, the pools hold
\* liquidity, nothing is approved.
TokenInit ==
    /\ balanceOf = [t \in Tokens |-> [a \in Holders |->
                      IF a = Trader /\ t # "OUT" THEN InitialBalance ELSE 0]]
    /\ allowance = [t \in Tokens |-> [pr \in Holders \X Spenders |-> 0]]
    /\ reserves = [p1 |-> [OUT |-> InitialBalance, T1 |-> 0],
                   p2 |-> [T2 |-> 0, OUT |-> InitialBalance - 1]]

ClientIdle ==
    /\ call = [fn |-> "none"]
    /\ ret = "none"
    /\ submitted = <<>>

(***************************************************************************)
(* The hook after construction, and its operations.                        *)
(***************************************************************************)
HookInit ==
    /\ owner = Deployer
    /\ backendService = ZeroAddress
    /\ userInvestmentAllocation = [u \in Callers |-> 0]
    /\ volumeThresholds = [p \in Pools |-> 0]
    /\ lastVolumeCheck = [p \in Pools |-> 0]
    /\ poolVolume = [p \in Pools |-> 0]
    /\ idlePositions = [p \in Pools |-> <<>>]
    /\ totalInvestedAmount = [p \in Pools |-> 0]

Init ==
    /\ HookInit
    /\ TokenInit
    /\ ClientIdle
    /\ now = 0
    /\ last = Result("constructor", "ok")

Next ==
    \/ \E c \in Callers, b \in BackendChoices : setBackendService(c, b)
    \/ \E c \in Callers, p \in Pools, v \in Venues, a \in 0..MaxInvested :
          investIdleLiquidity(c, p, v[2], a, v[1])
    \/ \E c \in Callers, p \in Pools, i \in 0..MaxPositions, a \in 0..MaxInvested :
          withdrawInvestedLiquidity(c, p, i, a)
    \/ \E p \in Pools, a \in (-MaxSwap..MaxSwap) \ {0} : Swap(p, a)

Spec == Init /\ [][Next]_vars

(***************************************************************************)
(* The administrative surface alone: the three owner-gated setters.        *)
(***************************************************************************)
NextAdmin ==
    \/ \E c \in Callers, b \in BackendChoices \cup {"a3"} : setBackendService(c, b)
    \/ \E c \in Callers, u \in Users, a \in AllocationChoices :
          setUserInvestmentAllocation(c, u, a)
    \/ \E c \in Callers, p \in Pools, t \in ThresholdChoices \cup {20} :
          setVolumeThreshold(c, p, t)

SpecAdmin == Init /\ [][NextAdmin]_vars

(***************************************************************************)
(* Exchanges: baskets through either BasketSwapper, standalone exchanges   *)
(* through the router, with the backend investing idle capital in between. *)
(***************************************************************************)
\* legs that sell an input token for OUT through its pool: a small amount, more
\* than the trader holds, more than the pool can pay, a floor above the output,
\* and a pool that was never initialised
LegChoices ==
    [token : {"T1"}, amountIn : {1, InitialBalance + 1}, amountOutMin : {0},
     zeroForOne : {FALSE}, poolKey : {"p1"}]
    \cup [token : {"T2"}, amountIn : {1, InitialBalance}, amountOutMin : {0},
          zeroForOne : {TRUE}, poolKey : {"p2"}]
    \cup [token : {"T1"}, amountIn : {1}, amountOutMin : {2},
          zeroForOne : {FALSE}, poolKey : {"p1"}]
    \cup [token : {"T1"}, amountIn : {1}, amountOutMin : {0},
          zeroForOne : {FALSE}, poolKey : {"p0"}]

\* the legs of LegChoices that can be exchanged
GoodLegs == {l \in LegChoices : l.amountIn = 1 /\ l.amountOutMin = 0 /\ l.poolKey \in Pools}

\* baskets of at most n legs: exchangeable legs, then any leg
RECURSIVE GoodBaskets(_)
GoodBaskets(n) ==
    IF n = 0 THEN {<<>>}
    ELSE LET shorter == GoodBaskets(n - 1)
         IN  shorter \cup {Append(b, l) : b \in shorter, l \in GoodLegs}

Baskets(n) == {Append(b, l) : b \in GoodBaskets(n - 1), l \in LegChoices}

NextBasket ==
    \/ \E b \in Baskets(MaxLegs), r \in Receivers, d \in {0, MaxTime} :
          basketSwap(Trader, b, r, d)
    \/ \E b \in Baskets(MaxLegs), r \in Receivers, d \in {0, MaxTime} :
          basketSwapLowLevel(Trader, b, r, d)
    \/ \E t \in Tokens \ {"OUT"} : approve(Trader, t, "swapper")
    \/ Tick

SpecBasket == Init /\ [][NextBasket]_vars

(***************************************************************************)
(* Baskets of exchangeable legs while the backend invests idle capital of  *)
(* the first pool, which the exchanges then recall.                        *)
(***************************************************************************)
NextVolume ==
    \/ \E b \in GoodBaskets(MaxLegs) \ {<<>>}, r \in Receivers, d \in {0, MaxTime} :
          basketSwap(Trader, b, r, d)
    \/ \E t \in Tokens \ {"OUT"} : approve(Trader, t, "swapper")
    \/ setBackendService(owner, "a2")
    \/ \E v \in Venues : investIdleLiquidity("a2", "p1", v[2], MaxInvested, v[1])
    \/ Tick

SpecVolume == Init /\ [][NextVolume]_vars

(***************************************************************************)
(* Volume tracking: exchanges and liquidity additions on both pools as     *)
(* time passes, while the backend invests idle capital of the first pool.  *)
(***************************************************************************)
NextTrack ==
    \/ \E p \in Pools, a \in (-MaxSwap..MaxSwap) \ {0} : Swap(p, a)
    \/ \E p \in Pools : AddLiquidity(p)
    \/ setBackendService(owner, "a2")
    \/ \E v \in Venues : investIdleLiquidity("a2", "p1", v[2], MaxInvested, v[1])
    \/ Tick

SpecTrack == Init /\ [][NextTrack]_vars

(***************************************************************************)
(* Recall and withdrawal on the first pool.  The backend has been          *)
(* designated and has invested: the pool starts with some list of          *)
(* positions, its invested total being their sum; then exchanges, the      *)
(* backend's withdrawals and the owner's threshold changes interleave.     *)
(***************************************************************************)
RECURSIVE PositionLists(_)
PositionLists(n) ==
    IF n = 0 THEN {<<>>}
    ELSE LET shorter == PositionLists(n - 1)
         IN  shorter \cup {Append(l, IdlePosition(v[1], v[2], a, 0)) :
                              l \in shorter, v \in Venues, a \in 1..MaxRecallAmount}

InitRecall ==
    /\ owner = Deployer
    /\ backendService = "a2"
    /\ userInvestmentAllocation = [u \in Callers |-> 0]
    /\ volumeThresholds = [p \in Pools |-> 0]
    /\ lastVolumeCheck = [p \in Pools |-> 0]
    /\ poolVolume = [p \in Pools |-> 0]
    /\ \E l \in PositionLists(MaxRecallPositions) :
          /\ idlePositions = [p \in Pools |-> IF p = "p1" THEN l ELSE <<>>]
          /\ totalInvestedAmount = [p \in Pools |-> IF p = "p1" THEN SumAmounts(l) ELSE 0]
    /\ TokenInit
    /\ ClientIdle
    /\ now = 0
    /\ last = Result("investIdleLiquidity", "ok")

NextRecall ==
    \/ \E a \in (-MaxSwap..MaxSwap) \ {0} : Swap("p1", a)
    \/ \E i \in 0..MaxRecallPositions, a \in 0..MaxRecallAmount :
          withdrawInvestedLiquidity("a2", "p1", i, a)
    \/ \E t \in ThresholdChoices \cup {15} : setVolumeThreshold(owner, "p1", t)

SpecRecall == InitRecall /\ [][NextRecall]_vars

(***************************************************************************)
(* Position lists with history.  The backend has invested in the first     *)
(* pool at successive times and in different venues, so the entries of the *)
(* list can be told apart and are in order of creation; the second pool    *)
(* holds one position.  Then withdrawals on both pools, exchanges on the   *)
(* first pool (threshold 0: every exchange recalls), further investments   *)
(* and the passing of time interleave.                                     *)
(***************************************************************************)
VenueList == <<<<"aave", "c0">>, <<"compound", "c1">>, <<"morpho", "c0">>>>
VenueOf(k) == VenueList[((k - 1) % Len(VenueList)) + 1]

\* lists of at most n positions as successive investIdleLiquidity calls leave
\* them: appended in order, so the timestamps never decrease along the list
RECURSIVE PositionHistories(_)
PositionHistories(n) ==
    IF n = 0 THEN {<<>>}
    ELSE LET shorter == PositionHistories(n - 1)
         IN  shorter \cup
             {Append(l, IdlePosition(VenueOf(Len(l) + 1)[1], VenueOf(Len(l) + 1)[2], a, t)) :
                 <<l, a, t>> \in {x \in shorter \X (1..MaxRecallAmount) \X (0..MaxTime) :
                                    x[1] = <<>> \/ x[1][Len(x[1])].timestamp <= x[3]}}

InitPositions ==
    /\ owner = Deployer
    /\ backendService = "a2"
    /\ userInvestmentAllocation = [u \in Callers |-> 0]
    /\ volumeThresholds = [p \in Pools |-> 0]
    /\ lastVolumeCheck = [p \in Pools |-> 0]
    /\ poolVolume = [p \in Pools |-> 0]
    /\ \E l \in PositionHistories(MaxRecallPositions) :
          /\ idlePositions = [p \in Pools |-> IF p = "p1" THEN l
                                               ELSE <<IdlePosition("aave", "c0", 1, 0)>>]
          /\ totalInvestedAmount = [p \in Pools |-> IF p = "p1" THEN SumAmounts(l) ELSE 1]
          /\ now = IF l = <<>> THEN 0 ELSE l[Len(l)].timestamp
    /\ TokenInit
    /\ ClientIdle
    /\ last = Result("investIdleLiquidity", "ok")

NextPositions ==
    \/ \E a \in (-MaxSwap..MaxSwap) \ {0} : Swap("p1", a)
    \/ \E p \in Pools, i \in 0..MaxRecallPositions, a \in 0..MaxRecallAmount :
          withdrawInvestedLiquidity("a2", p, i, a)
    \/ \E v \in Venues, a \in 1..MaxInvested : investIdleLiquidity("a2", "p1", v[2], a, v[1])
    \/ Tick

SpecPositions == InitPositions /\ [][NextPositions]_vars

\* the backend's calls alone, on the same position lists
NextWithdraw ==
    \/ \E p \in Pools, i \in 0..MaxRecallPositions, a \in 0..MaxRecallAmount :
          withdrawInvestedLiquidity("a2", p, i, a)
    \/ \E v \in Venues, a \in 1..MaxInvested : investIdleLiquidity("a2", "p1", v[2], a, v[1])

SpecWithdraw == InitPositions /\ [][NextWithdraw]_vars

(***************************************************************************)
(* The investment calculator (client side, pure).  A JavaScript number is  *)
(* kept as whole + half/2 so that values that are not integers exist; a    *)
(* bigint is an integer.                                                   *)
(***************************************************************************)
Number(whole, half) == [whole |-> whole, half |-> half]

\* n > k for a number n and an integer k
GreaterThan(n, k) == n.whole > k \/ (n.whole = k /\ n.half)

Threw(error) == [threw |-> TRUE, error |-> error, value |-> 0]
Returned(value) == [threw |-> FALSE, error |-> "", value |-> value]

\* BigInt(n): a RangeError unless n is an integer
BigInt(n) == IF n.half THEN Threw("RangeError") ELSE Returned(n.whole)

\* mutant: the 50% cap is left out
calculateInvestmentAmountUncapped(totalDeposit, userAllocationPercent) ==
    LET converted == BigInt(userAllocationPercent)
    IN  IF converted.threw THEN converted
        ELSE Returned((totalDeposit * converted.value) \div 10000)

calculateInvestmentAmount(totalDeposit, userAllocationPercent) ==
    LET capped == IF GreaterThan(userAllocationPercent, 5000)
                  THEN Number(5000, FALSE)
                  ELSE userAllocationPercent
        converted == BigInt(capped)
    IN  IF converted.threw THEN converted
        ELSE Returned((totalDeposit * converted.value) \div 10000)

\* deposits and allocations the calculator is called with
TotalChoices == 0..MaxTotal \cup {9999, 10000, 10001, 400000}
PercentChoices ==
    {Number(w, FALSE) : w \in {0, 1, 2500, 3000, 4999, 5000, 5001, 7000, 10000, 20000}}
    \cup {Number(w, TRUE) : w \in {2500, 5000}}

CallCalculateInvestmentAmount(totalDeposit, userAllocationPercent) ==
    /\ call' = [fn |-> "calculateInvestmentAmount", totalDeposit |-> totalDeposit,
                userAllocationPercent |-> userAllocationPercent]
    /\ ret' = calculateInvestmentAmount(totalDeposit, userAllocationPercent)
    /\ last' = Result("calculateInvestmentAmount",
                      IF ret'.threw THEN ret'.error ELSE "ok")
    /\ UNCHANGED <<hookVars, now, tokenVars, submitted>>

NextCalc ==
    \E t \in TotalChoices, pc \in PercentChoices : CallCalculateInvestmentAmount(t, pc)

SpecCalc == Init /\ [][NextCalc]_vars

(***************************************************************************)
(* The rebalancer (client side, pure): calculate5050Ratio.  Quantities are *)
(* bigints; the fixed-point unit 10^18 and 2^192 are scaled down.          *)
(***************************************************************************)
WAD == 100      \* 10n ** 18n
Q192 == 4       \* 2n ** 192n
RatioPoolKey == [currency0 |-> "0xc0", currency1 |-> "0xc1"]

toLowerCase(address) ==
    CASE address = "0xC0" -> "0xc0"
      [] address = "0xC1" -> "0xc1"
      [] OTHER -> address

\* a / b for bigints: the quotient is truncated toward zero (b > 0)
Quot(a, b) == IF a < 0 THEN -((-a) \div b) ELSE a \div b

TokenBalance(token, amount) == [token |-> token, amount |-> amount]
NoPrice == [defined |-> FALSE, value |-> 0]
SqrtPrice(value) == [defined |-> TRUE, value |-> value]

\* the first loop: the sum of the balances held in the given pool currency
RECURSIVE TotalOf(_, _, _)
TotalOf(tokens, currency, n) ==
    IF n > Len(tokens) THEN 0
    ELSE (IF toLowerCase(tokens[n].token) = toLowerCase(currency)
          THEN tokens[n].amount ELSE 0)
         + TotalOf(tokens, currency, n + 1)

\* the first loop: the balances held in neither pool currency, in order
RECURSIVE TokensToSwap(_, _, _)
TokensToSwap(tokens, poolKey, n) ==
    IF n > Len(tokens) THEN <<>>
    ELSE (IF toLowerCase(tokens[n].token) \notin
                {toLowerCase(poolKey.currency0), toLowerCase(poolKey.currency1)}
          THEN <<tokens[n]>> ELSE <<>>)
         \o TokensToSwap(tokens, poolKey, n + 1)

PlannedSwap(from, to, amount) == [from |-> from, to |-> to, amount |-> amount]
Plan(amount0, amount1, swaps) == [amount0 |-> amount0, amount1 |-> amount1, swaps |-> swaps]

\* currentPrice ? (currentPrice * currentPrice) / 2^192 : 1n
EstimatedPriceRatio(currentPrice) ==
    IF currentPrice.defined /\ currentPrice.value # 0
    THEN (currentPrice.value * currentPrice.value) \div Q192
    ELSE 1

\* mutant: both swaps carry the rounded-down half, an odd unit is dropped
RECURSIVE SplitOthersHalfTwice(_, _, _, _)
SplitOthersHalfTwice(others, n, poolKey, plan) ==
    IF n > Len(others) THEN plan
    ELSE LET halfAmount == others[n].amount \div 2
         IN  SplitOthersHalfTwice(others, n + 1, poolKey,
                 Plan(plan.amount0 + halfAmount, plan.amount1 + halfAmount,
                      plan.swaps \o
                          <<PlannedSwap(others[n].token, poolKey.currency0, halfAmount),
                            PlannedSwap(others[n].token, poolKey.currency1, halfAmount)>>))

\* the second loop: half of every other balance to each pool currency
RECURSIVE SplitOthers(_, _, _, _)
SplitOthers(others, n, poolKey, plan) ==
    IF n > Len(others) THEN plan
    ELSE LET halfAmount == Quot(others[n].amount, 2)
         IN  SplitOthers(others, n + 1, poolKey,
                 Plan(plan.amount0 + halfAmount,
                      plan.amount1 + (others[n].amount - halfAmount),
                      plan.swaps \o
                          <<PlannedSwap(others[n].token, poolKey.currency0, halfAmount),
                            PlannedSwap(others[n].token, poolKey.currency1,
                                        others[n].amount - halfAmount)>>))

\* mutant: the swap is planned without comparing it with the balance held
BalanceUnguarded(totalCurrency0, totalCurrency1, ratio, poolKey) ==
    LET currency1Value == Quot(totalCurrency1 * ratio, WAD)
        targetValue == Quot(totalCurrency0 + currency1Value, 2)
        neededCurrency0 == targetValue - totalCurrency0
        neededCurrency1 == targetValue - currency1Value
    IN  IF totalCurrency0 < targetValue
        THEN IF ratio = 0 THEN Threw("RangeError")
             ELSE Returned(Plan(totalCurrency0 + neededCurrency0,
                                totalCurrency1 - Quot(neededCurrency0 * WAD, ratio),
                                <<PlannedSwap(poolKey.currency1, poolKey.currency0,
                                              Quot(neededCurrency0 * WAD, ratio))>>))
        ELSE IF totalCurrency1 < targetValue
        THEN IF ratio = 0 THEN Threw("RangeError")
             ELSE Returned(Plan(totalCurrency0 - Quot(neededCurrency1 * WAD, ratio),
                                totalCurrency1 + neededCurrency1,
                                <<PlannedSwap(poolKey.currency0, poolKey.currency1,
                                              Quot(neededCurrency1 * WAD, ratio))>>))
        ELSE Returned(Plan(totalCurrency0, totalCurrency1, <<>>))

\* lines 103-131: the swap between the two pool currencies; a bigint division
\* by a ratio of zero throws a RangeError
Balance(totalCurrency0, totalCurrency1, ratio, poolKey) ==
    LET currency1Value == Quot(totalCurrency1 * ratio, WAD)
        totalValue == totalCurrency0 + currency1Value
        targetValue == Quot(totalValue, 2)
        neededCurrency0 == targetValue - totalCurrency0
        neededCurrency1 == targetValue - currency1Value
        unchanged == Plan(totalCurrency0, totalCurrency1, <<>>)
    IN  IF totalCurrency0 < targetValue
        THEN IF ratio = 0 THEN Threw("RangeError")
             ELSE LET currency1ToSwap == Quot(neededCurrency0 * WAD, ratio)
                  IN  IF currency1ToSwap <= totalCurrency1
                      THEN Returned(Plan(totalCurrency0 + neededCurrency0,
                                         totalCurrency1 - currency1ToSwap,
                                         <<PlannedSwap(poolKey.currency1, poolKey.currency0,
                                                       currency1ToSwap)>>))
                      ELSE Returned(unchanged)
        ELSE IF totalCurrency1 < targetValue
        THEN IF ratio = 0 THEN Threw("RangeError")
             ELSE LET currency0ToSwap == Quot(neededCurrency1 * WAD, ratio)
                  IN  IF currency0ToSwap <= totalCurrency0
                      THEN Returned(Plan(totalCurrency0 - currency0ToSwap,
                                         totalCurrency1 + neededCurrency1,
                                         <<PlannedSwap(poolKey.currency0, poolKey.currency1,
                                                       currency0ToSwap)>>))
                      ELSE Returned(unchanged)
        ELSE Returned(unchanged)

calculate5050Ratio(tokens, poolKey, currentPrice) ==
    LET balanced == Balance(TotalOf(tokens, poolKey.currency0, 1),
                            TotalOf(tokens, poolKey.currency1, 1),
                            EstimatedPriceRatio(currentPrice), poolKey)
    IN  IF balanced.threw THEN balanced
        ELSE Returned(SplitOthers(TokensToSwap(tokens, poolKey, 1), 1, poolKey,
                                  balanced.value))

\* balances the rebalancer is called with
HoldingChoices ==
    {TokenBalance(t, a) : t \in {"0xc0", "0xC0", "0xc1", "0xdac"},
                          a \in 0..MaxHolding \cup {WAD, 2 * WAD}}
RECURSIVE HoldingLists(_)
HoldingLists(n) ==
    IF n = 0 THEN {<<>>}
    ELSE LET shorter == HoldingLists(n - 1)
         IN  shorter \cup {Append(l, h) : l \in shorter, h \in HoldingChoices}
PriceChoices ==
    {NoPrice, SqrtPrice(0), SqrtPrice(1), SqrtPrice(2), SqrtPrice(10), SqrtPrice(20),
     SqrtPrice(2 * WAD)}

CallCalculate5050Ratio(tokens, currentPrice) ==
    /\ call.fn = "none"
    /\ call' = [fn |-> "calculate5050Ratio", tokens |-> tokens, poolKey |-> RatioPoolKey,
                currentPrice |-> currentPrice]
    /\ ret' = calculate5050Ratio(tokens, RatioPoolKey, currentPrice)
    /\ last' = Result("calculate5050Ratio", IF ret'.threw THEN ret'.error ELSE "ok")
    /\ UNCHANGED <<hookVars, now, tokenVars, submitted>>

\* the result is read and the next computation can be asked for
Forget ==
    /\ call.fn # "none"
    /\ call' = [fn |-> "none"]
    /\ ret' = "none"
    /\ last' = Result("forget", "ok")
    /\ UNCHANGED <<hookVars, now, tokenVars, submitted>>

NextRatio ==
    \/ /\ call.fn = "none"
       /\ \E tokens \in HoldingLists(MaxTokens), price \in PriceChoices :
             CallCalculate5050Ratio(tokens, price)
    \/ Forget

SpecRatio == Init /\ [][NextRatio]_vars

(***************************************************************************)
(* IdleLiquidityManager.processUserInvestment: the part of a deposit that  *)
(* is invested, and the rest handed to the rebalancer.                     *)
(***************************************************************************)
\* tokens.reduce((sum, token) => sum + token.amount, 0n)
RECURSIVE TotalDeposit(_, _)
TotalDeposit(tokens, n) ==
    IF n > Len(tokens) THEN 0 ELSE tokens[n].amount + TotalDeposit(tokens, n + 1)

\* tokens.map(t => ({...t, amount: t.amount - investmentAmount / BigInt(tokens.length)}))
RemainingTokens(tokens, investmentAmount) ==
    [k \in 1..Len(tokens) |->
        [tokens[k] EXCEPT !.amount = @ - Quot(investmentAmount, Len(tokens))]]

\* execute5050Swaps: throws without a signer; otherwise it looks up a route for
\* every swap and executes none (the execution is commented out)
execute5050Swaps(swaps, hasSigner) ==
    IF ~hasSigner THEN Threw("Signer required for swaps") ELSE Returned(TRUE)

\* the outcome of processUserInvestment: what it returns or throws, the amount
\* it set aside and the holdings it handed to calculate5050Ratio, if it got there
processUserInvestmentRun(tokens, poolKey, allocationPercent, hasSigner) ==
    LET investmentAmount ==
            calculateInvestmentAmount(TotalDeposit(tokens, 1), allocationPercent)
    IN  IF investmentAmount.threw
        THEN [result |-> investmentAmount, handed |-> FALSE, invested |-> 0,
              remainingTokens |-> <<>>]
        ELSE LET remainingTokens == RemainingTokens(tokens, investmentAmount.value)
                 plan == calculate5050Ratio(remainingTokens, poolKey, NoPrice)
                 executed == IF plan.threw THEN plan
                             ELSE execute5050Swaps(plan.value.swaps, hasSigner)
             IN  [result |-> IF executed.threw THEN executed
                             ELSE Returned([investedAmount |-> investmentAmount.value,
                                            lpAmount0 |-> plan.value.amount0,
                                            lpAmount1 |-> plan.value.amount1]),
                  handed |-> TRUE, invested |-> investmentAmount.value,
                  remainingTokens |-> remainingTokens]

processUserInvestment(tokens, allocationPercent, hasSigner) ==
    /\ call' = [fn |-> "processUserInvestment", tokens |-> tokens,
                poolKey |-> RatioPoolKey, allocationPercent |-> allocationPercent,
                hasSigner |-> hasSigner]
    /\ LET run == processUserInvestmentRun(tokens, RatioPoolKey, allocationPercent,
                                           hasSigner)
       IN  /\ ret' = run.result
           /\ last' = [op |-> "processUserInvestment",
                       err |-> IF run.result.threw THEN run.result.error ELSE "ok",
                       handed |-> run.handed, invested |-> run.invested,
                       remainingTokens |-> run.remainingTokens]
    /\ UNCHANGED <<hookVars, now, tokenVars, submitted>>

\* allocations in basis points: none, a quarter, the cap, above the cap, and a
\* number that is not an integer
AllocationPercents ==
    {Number(w, FALSE) : w \in {0, 2500, 5000, 7000}} \cup {Number(2500, TRUE)}

NextInvest ==
    \/ /\ call.fn = "none"
       /\ \E tokens \in HoldingLists(MaxTokens), pc \in AllocationPercents,
             hasSigner \in BOOLEAN : processUserInvestment(tokens, pc, hasSigner)
    \/ Forget

SpecInvest == Init /\ [][NextInvest]_vars

(***************************************************************************)
(* Tokens, prices and pools known to the client (constants/tokens.ts,      *)
(* constants/swap.ts).  A decimal quantity is an integer number of units   *)
(* of 10^-8, the finest grain a quote is printed with; a price is an       *)
(* integer number of 10^-4 USDT.                                           *)
(***************************************************************************)
TOKEN_PRICES_USDT ==
    [USDT |-> 10000, USDC |-> 10007, WETH |-> 21040000, WBTC |-> 702300000,
     DAI |-> 10006]
TokenDecimals == [USDT |-> 6, USDC |-> 6, WETH |-> 18, WBTC |-> 8, DAI |-> 18]
TokenSymbols == DOMAIN TokenDecimals
\* the deployed tokens, by ascending lower-case address
AddressOrder == <<"USDT", "WBTC", "WETH", "DAI", "USDC">>
\* alphabetical order of the symbols that occur
SymbolOrder == <<"DAI", "FOO", "USDC", "USDT", "WBTC", "WETH">>
POOL_PAIRS ==
    {<<"DAI", "USDT">>, <<"USDC", "USDT">>, <<"USDT", "WBTC">>, <<"USDT", "WETH">>,
     <<"WBTC", "WETH">>}
INTERMEDIATE_CANDIDATES == <<"USDT", "USDC", "WETH", "WBTC", "DAI">>

toUpperCase(symbol) ==
    CASE symbol = "usdt" -> "USDT"
      [] symbol = "weth" -> "WETH"
      [] OTHER -> symbol

\* the position of x in seq; 0 for the empty string, which sorts first
IndexIn(seq, x) ==
    IF \E n \in 1..Len(seq) : seq[n] = x
    THEN CHOOSE n \in 1..Len(seq) : seq[n] = x
    ELSE 0

\* mutant: an asset without a listed price is taken at 1 USDT
getPriceInUsdtDefaultOne(symbol) ==
    IF toUpperCase(symbol) \in DOMAIN TOKEN_PRICES_USDT
    THEN TOKEN_PRICES_USDT[toUpperCase(symbol)]
    ELSE 10000

getPriceInUsdt(symbol) ==
    IF toUpperCase(symbol) \in DOMAIN TOKEN_PRICES_USDT
    THEN TOKEN_PRICES_USDT[toUpperCase(symbol)]
    ELSE 0

\* getPoolKey: the pool of a pair in either order, or undefined
getPoolKey(tokenA, tokenB) ==
    LET a == toUpperCase(tokenA)
        b == toUpperCase(tokenB)
        key == IF IndexIn(SymbolOrder, a) <= IndexIn(SymbolOrder, b)
               THEN <<a, b>> ELSE <<b, a>>
    IN  IF key \notin POOL_PAIRS \/ a \notin TokenSymbols \/ b \notin TokenSymbols
        THEN [defined |-> FALSE]
        ELSE [defined |-> TRUE,
              currency0 |-> IF IndexIn(AddressOrder, a) < IndexIn(AddressOrder, b)
                            THEN a ELSE b,
              currency1 |-> IF IndexIn(AddressOrder, a) < IndexIn(AddressOrder, b)
                            THEN b ELSE a]

(***************************************************************************)
(* Quotes (services/quote).  A quantity string is the literal '0', a       *)
(* decimal number, or text that is no number.                              *)
(***************************************************************************)
Zero == [kind |-> "0", units |-> 0]
Decimal(units) == [kind |-> "decimal", units |-> units]
Junk == [kind |-> "junk", units |-> 0]
\* a number followed by other characters, as in '5abc': parseFloat reads the number
Trailing(units) == [kind |-> "trailing", units |-> units]
Empty == [kind |-> "", units |-> 0]

\* parseFloat(text) is a number
IsNumber(text) == text.kind \in {"0", "decimal", "trailing"}

\* parseFloat(text) is finite and positive
IsPositiveNumber(text) == IsNumber(text) /\ text.units > 0

\* parseFloat(text) || 0
ParseFloatOrZero(text) == IF IsNumber(text) THEN text.units ELSE 0

RECURSIVE GCD(_, _)
GCD(a, b) == IF b = 0 THEN a ELSE GCD(b, a % b)

\* mutant: the whole part of a / d is lost in the product
MulDivLowBits(a, n, d) ==
    LET r == a % d
    IN  [quot |-> (r * n) \div d, rem |-> (r * n) % d]

\* a * n / d as quotient and remainder, without leaving the integer range
MulDiv(a, n, d) ==
    LET q == a \div d
        r == a % d
    IN  [quot |-> q * n + (r * n) \div d, rem |-> (r * n) % d]

\* x.toFixed(maxDecimals) for x = quot + rem / d units: round half up to a
\* multiple of 10^(8 - maxDecimals) units
toFixed(x, d, maxDecimals) ==
    IF maxDecimals = 8
    THEN Decimal(x.quot + (IF 2 * x.rem >= d THEN 1 ELSE 0))
    ELSE Decimal(((x.quot \div 100) + (IF x.quot % 100 >= 50 THEN 1 ELSE 0)) * 100)

getQuote(inputSymbol, inputAmount, outputSymbol) ==
    IF ~IsPositiveNumber(inputAmount) THEN Zero
    ELSE LET inputPrice == getPriceInUsdt(inputSymbol)
             outputPrice == getPriceInUsdt(outputSymbol)
         IN  IF inputPrice = 0 \/ outputPrice = 0 THEN Zero
             ELSE LET g == GCD(inputPrice, outputPrice)
                      decimals == TokenDecimals[toUpperCase(outputSymbol)]
                      maxDecimals == IF decimals < 8 THEN decimals ELSE 8
                  IN  toFixed(MulDiv(inputAmount.units, inputPrice \div g, outputPrice \div g),
                              outputPrice \div g, maxDecimals)

RECURSIVE QuoteHops(_, _, _)
QuoteHops(path, i, amount) ==
    IF ~(i < Len(path) - 1) THEN amount
    ELSE LET next == getQuote(path[i + 1], amount, path[i + 2])
         IN  IF next = Zero THEN Zero ELSE QuoteHops(path, i + 1, next)

getQuoteForPath(path, amountIn) ==
    IF Len(path) < 2 THEN amountIn ELSE QuoteHops(path, 0, amountIn)

(***************************************************************************)
(* Route selection (services/swap-path.ts).                                *)
(***************************************************************************)
RECURSIVE ViaIntermediates(_, _, _)
ViaIntermediates(from, to, n) ==
    IF n > Len(INTERMEDIATE_CANDIDATES) THEN <<>>
    ELSE LET mid == INTERMEDIATE_CANDIDATES[n]
             rest == ViaIntermediates(from, to, n + 1)
         IN  IF mid = from \/ mid = to THEN rest
             ELSE IF getPoolKey(from, mid).defined /\ getPoolKey(mid, to).defined
             THEN <<(<<from, mid, to>>)>> \o rest
             ELSE rest

getCandidatePaths(fromSymbol, toSymbol) ==
    LET from == toUpperCase(fromSymbol)
        to == toUpperCase(toSymbol)
    IN  IF from = to THEN <<(<<from>>)>>
        ELSE (IF getPoolKey(from, to).defined THEN <<(<<from, to>>)>> ELSE <<>>)
             \o ViaIntermediates(from, to, 1)

\* mutant: a later candidate replaces the best one when it yields less
IsWorse(out, bestOutput) == out < bestOutput

\* mutant: a later candidate replaces the best one when it yields as much
IsNotWorse(out, bestOutput) == out >= bestOutput

\* if (out > bestOutput)
IsBetter(out, bestOutput) == out > bestOutput

\* the loop of getPathForPair over candidates[i..]
RECURSIVE BestPath(_, _, _, _, _)
BestPath(candidates, i, amountIn, bestPath, bestOutput) ==
    IF ~(i < Len(candidates)) THEN bestPath
    ELSE LET path == candidates[i + 1]
             out == ParseFloatOrZero(getQuoteForPath(path, amountIn))
         IN  IF IsBetter(out, bestOutput)
             THEN BestPath(candidates, i + 1, amountIn, path, out)
             ELSE BestPath(candidates, i + 1, amountIn, bestPath, bestOutput)

SwapPathWithReason(from, to, path, reason) ==
    [fromSymbol |-> from, toSymbol |-> to, path |-> path, reason |-> reason]

getPathForPair(fromSymbol, toSymbol, amountIn) ==
    LET from == toUpperCase(fromSymbol)
        to == toUpperCase(toSymbol)
        candidates == getCandidatePaths(from, to)
    IN  IF from = to THEN SwapPathWithReason(from, to, <<from>>, "optimal_by_cost")
        ELSE IF Len(candidates) = 0
        THEN SwapPathWithReason(from, to, <<from, to>>, "optimal_by_cost")
        ELSE LET bestPath ==
                     BestPath(candidates, 1, amountIn, candidates[1],
                              ParseFloatOrZero(getQuoteForPath(candidates[1], amountIn)))
             IN  SwapPathWithReason(from, to, bestPath,
                     IF Len(bestPath) = 2 THEN "direct_pool" ELSE "via_intermediate")

\* symbols and quantities the client is asked about: 10 units of a stablecoin,
\* 0.01 WETH and 0.0003 WBTC are about the same value
SymbolChoices == TokenSymbols \cup {"usdt", "weth", "FOO"}
AmountChoices(symbol) ==
    {Zero, Junk, Decimal(-100000000)}
    \cup {Decimal(u) : u \in 1..MaxDust}
    \cup {Decimal(u) : u \in
            CASE toUpperCase(symbol) = "WBTC" -> {100, 14239, 30000}
              [] toUpperCase(symbol) = "WETH" -> {100, 475285, 1000000}
              [] OTHER -> {100, 2104, 70230, 100000000, 1000000000}}

CallGetPathForPair(fromSymbol, toSymbol, amountIn) ==
    /\ call' = [fn |-> "getPathForPair", fromSymbol |-> fromSymbol,
                toSymbol |-> toSymbol, amountIn |-> amountIn]
    /\ ret' = getPathForPair(fromSymbol, toSymbol, amountIn)
    /\ last' = Result("getPathForPair", "ok")
    /\ UNCHANGED <<hookVars, now, tokenVars, submitted>>

NextPath ==
    \E from \in SymbolChoices, to \in SymbolChoices :
        \E a \in AmountChoices(from) : CallGetPathForPair(from, to, a)

SpecPath == Init /\ [][NextPath]_vars

(***************************************************************************)
(* Quotes along a route, asked for the routes the selector proposes and    *)
(* for routes over an asset without a price.                               *)
(***************************************************************************)
ProposedRoutes ==
    UNION {{getCandidatePaths(from, to)[k] : k \in 1..Len(getCandidatePaths(from, to))} :
              from \in TokenSymbols, to \in TokenSymbols}
RouteChoices ==
    {r \in ProposedRoutes : Len(r) >= 2}
    \cup {Append(r, "FOO") : r \in {x \in ProposedRoutes : Len(x) = 2}}
    \cup {<<"FOO", a>> : a \in {"USDT", "WBTC", "FOO"}}
    \cup {<<a, "FOO", b>> : a \in {"USDT", "WBTC"}, b \in {"USDT", "WETH"}}
    \cup {<<"usdt", "weth">>, <<"weth", "WBTC", "usdt">>}
QuoteAmountChoices(symbol) == AmountChoices(symbol) \cup {Trailing(100), Empty}

CallGetQuoteForPath(path, amountIn) ==
    /\ call' = [fn |-> "getQuoteForPath", path |-> path, amountIn |-> amountIn]
    /\ ret' = getQuoteForPath(path, amountIn)
    /\ last' = Result("getQuoteForPath", "ok")
    /\ UNCHANGED <<hookVars, now, tokenVars, submitted>>

NextQuote ==
    \E path \in RouteChoices :
        \E a \in QuoteAmountChoices(path[1]) : CallGetQuoteForPath(path, a)

SpecQuote == Init /\ [][NextQuote]_vars

(***************************************************************************)
(* The swap executor of the client (hooks/useSwap.ts).  A request runs     *)
(* against an environment: the connected account, the chain, the time and  *)
(* how many wallet prompts the user confirms before rejecting one.  A run  *)
(* is the list of transactions handed over and what the request returned   *)
(* or threw.                                                               *)
(***************************************************************************)
SLIPPAGE_BPS == 2000
Deadline == 3600
V4_SWAP_ROUTER_ADDRESS == "router"
BASKET_SWAPPER_ADDRESS == "swapper"
NoAmount == [units |-> 0, rem |-> 0, decimals |-> 0]

\* a transaction request; every request has all fields
Tx(address, functionName) ==
    [address |-> address, functionName |-> functionName, spender |-> "",
     amountIn |-> NoAmount, amountOutMin |-> NoAmount, startCurrency |-> "",
     pathKeys |-> <<>>, zeroForOne |-> FALSE, poolKey |-> <<>>, swapInputs |-> <<>>,
     receiver |-> "", deadline |-> 0]

\* mutant: a symbol that is not listed resolves to a token of 18 decimals
getTokenBySymbolAny(symbol) ==
    IF toUpperCase(symbol) \in TokenSymbols
    THEN [defined |-> TRUE, address |-> toUpperCase(symbol),
          decimals |-> TokenDecimals[toUpperCase(symbol)]]
    ELSE [defined |-> TRUE, address |-> toUpperCase(symbol), decimals |-> 18]

getTokenBySymbol(symbol) ==
    IF toUpperCase(symbol) \in TokenSymbols
    THEN [defined |-> TRUE, address |-> toUpperCase(symbol),
          decimals |-> TokenDecimals[toUpperCase(symbol)]]
    ELSE [defined |-> FALSE]

\* viem parseUnits(text, decimals): the quantity in raw units, units * 10^-8 *
\* 10^decimals, rounded half up; text must be a plain decimal number
ParsesAsUnits(text) == text.kind \in {"0", "decimal"}
parseUnits(text, decimals) ==
    IF decimals >= 8
    THEN [units |-> text.units, rem |-> 0, decimals |-> decimals]
    ELSE [units |-> ((text.units \div 100) + (IF text.units % 100 >= 50 THEN 1 ELSE 0)) * 100,
          rem |-> 0, decimals |-> decimals]

\* mutant: the tolerance is added to the quote instead of taken off it
amountOutMinAboveQuote(quote, decimals, slippageBps) ==
    IF ~IsPositiveNumber(quote) THEN [units |-> 0, rem |-> 0, decimals |-> decimals]
    ELSE LET min == MulDiv(quote.units, 10000 + slippageBps, 10000)
         IN  IF decimals > 8
             THEN [units |-> min.quot, rem |-> min.rem, decimals |-> decimals]
             ELSE parseUnits(toFixed(min, 10000, decimals), decimals)

amountOutMinWithSlippage(quote, decimals, slippageBps) ==
    IF ~IsPositiveNumber(quote) THEN [units |-> 0, rem |-> 0, decimals |-> decimals]
    ELSE LET min == MulDiv(quote.units, 10000 - slippageBps, 10000)
         IN  IF decimals > 8
             THEN [units |-> min.quot, rem |-> min.rem, decimals |-> decimals]
             ELSE parseUnits(toFixed(min, 10000, decimals), decimals)

RECURSIVE pathToPathKeys(_, _)
pathToPathKeys(path, i) ==
    IF ~(i < Len(path)) THEN <<>>
    ELSE IF ~getTokenBySymbol(path[i + 1]).defined THEN <<>>
    ELSE <<path[i + 1]>> \o pathToPathKeys(path, i + 1)

Run(txs, accepts, result) == [submitted |-> txs, accepts |-> accepts, result |-> result]
Throws(run, error) == Run(run.submitted, run.accepts, [threw |-> TRUE, error |-> error])
Resolves(run, kind) == Run(run.submitted, run.accepts, [threw |-> FALSE, error |-> kind])

\* await writeContractAsync(request): the wallet prompts; the user confirms or rejects
writeContractAsync(run, request) ==
    IF run.accepts > 0
    THEN Run(Append(run.submitted, request), run.accepts - 1, [threw |-> FALSE, error |-> ""])
    ELSE Throws(run, "User rejected the request")

\* return { hash } unless the wallet rejected the exchange
ReturnHash(sent, kind) == IF sent.result.threw THEN sent ELSE Resolves(sent, kind)

\* executeSingleSwap from the approval on
SubmitSingleSwap(path, inputToken, approveTx, swapTx, start) ==
    LET approved == writeContractAsync(start, approveTx)
    IN  IF approved.result.threw THEN approved
        ELSE IF Len(path) > 2
        THEN ReturnHash(writeContractAsync(approved,
                 [swapTx EXCEPT !.startCurrency = path[1],
                              !.pathKeys = pathToPathKeys(path, 1)]), "hash")
        ELSE IF Len(path) < 2 THEN Throws(approved, "TypeError")
        ELSE LET poolKey == getPoolKey(path[1], path[2])
             IN  IF ~poolKey.defined THEN Throws(approved, "No pool for this pair")
                 ELSE ReturnHash(writeContractAsync(approved,
                          [swapTx EXCEPT
                              !.zeroForOne = (poolKey.currency0 = inputToken.address),
                              !.poolKey = <<poolKey.currency0, poolKey.currency1>>]), "hash")

\* executeSingleSwap once the route is chosen
SingleSwapAlong(path, inputToken, outputToken, params, env, start) ==
    IF ~inputToken.defined \/ ~outputToken.defined
    THEN Throws(start, "Token not supported on this chain")
    ELSE IF ~ParsesAsUnits(params.inputAmount)
    THEN Throws(start, "InvalidDecimalNumberError")
    ELSE SubmitSingleSwap(path, inputToken,
             [Tx(inputToken.address, "approve") EXCEPT
                 !.spender = V4_SWAP_ROUTER_ADDRESS, !.amountIn.units = MAX_UINT256],
             [Tx(V4_SWAP_ROUTER_ADDRESS, "swapExactTokensForTokens") EXCEPT
                 !.amountIn = parseUnits(params.inputAmount, inputToken.decimals),
                 !.amountOutMin = amountOutMinWithSlippage(
                                      getQuoteForPath(path, params.inputAmount),
                                      outputToken.decimals, SLIPPAGE_BPS),
                 !.receiver = env.receiver,
                 !.deadline = now + Deadline],
             start)

executeSingleSwapRun(params, env, start) ==
    IF env.receiver = "" THEN Throws(start, "Wallet not connected")
    ELSE IF ~env.isCorrectChain THEN Throws(start, "Please switch to Base Sepolia")
    ELSE SingleSwapAlong(
             getPathForPair(params.inputSymbol, params.outputSymbol, params.inputAmount).path,
             getTokenBySymbol(params.inputSymbol), getTokenBySymbol(params.outputSymbol),
             params, env, start)

\* inputs.filter((i) => i.symbol && i.amount && parseFloat(i.amount) > 0)
IsValidInput(i) == i.symbol # "" /\ i.amount.kind # "" /\ IsPositiveNumber(i.amount)

RECURSIVE Filter(_, _)
Filter(inputs, n) ==
    IF n > Len(inputs) THEN <<>>
    ELSE (IF IsValidInput(inputs[n]) THEN <<inputs[n]>> ELSE <<>>) \o Filter(inputs, n + 1)

\* Step 1: approve BasketSwapper once per unique input token
RECURSIVE ApproveBasketSwapper(_, _, _, _)
ApproveBasketSwapper(validInputs, n, seenTokens, run) ==
    IF n > Len(validInputs) THEN run
    ELSE LET inputToken == getTokenBySymbol(validInputs[n].symbol)
         IN  IF ~inputToken.defined THEN Throws(run, "Token not supported")
             ELSE IF inputToken.address \in seenTokens
             THEN ApproveBasketSwapper(validInputs, n + 1, seenTokens, run)
             ELSE LET approved == writeContractAsync(run,
                          [Tx(inputToken.address, "approve") EXCEPT
                              !.spender = BASKET_SWAPPER_ADDRESS,
                              !.amountIn.units = MAX_UINT256])
                  IN  IF approved.result.threw THEN approved
                      ELSE ApproveBasketSwapper(validInputs, n + 1,
                               seenTokens \cup {inputToken.address}, approved)

\* Step 2: the SwapInput[] of the contract call; a record with an error instead
\* of the list when building it throws
SwapInput(input, inputToken, outputToken, poolKey, outputSymbol) ==
    [token |-> inputToken.address,
     amountIn |-> parseUnits(input.amount, inputToken.decimals),
     amountOutMin |-> amountOutMinWithSlippage(
                          getQuoteForPath(<<toUpperCase(input.symbol),
                                            toUpperCase(outputSymbol)>>, input.amount),
                          outputToken.decimals, SLIPPAGE_BPS),
     zeroForOne |-> (poolKey.currency0 = inputToken.address),
     poolKey |-> <<poolKey.currency0, poolKey.currency1>>]

\* `No direct pool for ${input.symbol} -> ${outputSymbol}. ...`
NoDirectPool(inputSymbol, outputSymbol) ==
    "No direct pool for " \o inputSymbol \o " -> " \o outputSymbol

\* mutant: an input without a direct pool is left out of the basket
RECURSIVE BuildSwapInputsSkipMissing(_, _, _, _)
BuildSwapInputsSkipMissing(validInputs, n, outputSymbol, swapInputs) ==
    IF n > Len(validInputs) THEN [error |-> "", swapInputs |-> swapInputs]
    ELSE IF ~ParsesAsUnits(validInputs[n].amount)
    THEN [error |-> "InvalidDecimalNumberError", swapInputs |-> swapInputs]
    ELSE IF ~getPoolKey(validInputs[n].symbol, outputSymbol).defined
    THEN BuildSwapInputsSkipMissing(validInputs, n + 1, outputSymbol, swapInputs)
    ELSE BuildSwapInputsSkipMissing(validInputs, n + 1, outputSymbol,
             Append(swapInputs,
                    SwapInput(validInputs[n], getTokenBySymbol(validInputs[n].symbol),
                              getTokenBySymbol(outputSymbol),
                              getPoolKey(validInputs[n].symbol, outputSymbol),
                              outputSymbol)))

RECURSIVE BuildSwapInputs(_, _, _, _)
BuildSwapInputs(validInputs, n, outputSymbol, swapInputs) ==
    IF n > Len(validInputs) THEN [error |-> "", swapInputs |-> swapInputs]
    ELSE IF ~ParsesAsUnits(validInputs[n].amount)
    THEN [error |-> "InvalidDecimalNumberError", swapInputs |-> swapInputs]
    ELSE IF ~getPoolKey(validInputs[n].symbol, outputSymbol).defined
    THEN [error |-> NoDirectPool(validInputs[n].symbol, outputSymbol),
          swapInputs |-> swapInputs]
    ELSE BuildSwapInputs(validInputs, n + 1, outputSymbol,
             Append(swapInputs,
                    SwapInput(validInputs[n], getTokenBySymbol(validInputs[n].symbol),
                              getTokenBySymbol(outputSymbol),
                              getPoolKey(validInputs[n].symbol, outputSymbol),
                              outputSymbol)))

\* mutant: a single input is sent through the BasketSwapper like any other basket
NeverSingle(validInputs) == FALSE

\* if (validInputs.length === 1)
IsSingleInput(validInputs) == Len(validInputs) = 1

\* Step 3: one basketSwap transaction, unless step 1 or step 2 threw
SubmitBasketSwap(approved, built, env) ==
    IF approved.result.threw THEN approved
    ELSE IF built.error # "" THEN Throws(approved, built.error)
    ELSE ReturnHash(writeContractAsync(approved,
             [Tx(BASKET_SWAPPER_ADDRESS, "basketSwap") EXCEPT
                 !.swapInputs = built.swapInputs,
                 !.receiver = env.receiver,
                 !.deadline = now + Deadline]), "hashes")

\* executeBasketSwaps once the valid inputs are known
BasketSwapsOf(validInputs, outputSymbol, env, start) ==
    IF Len(validInputs) = 0 THEN Throws(start, "No valid inputs")
    ELSE IF IsSingleInput(validInputs)
    THEN ReturnHash(executeSingleSwapRun(
                        [inputSymbol |-> validInputs[1].symbol,
                         inputAmount |-> validInputs[1].amount,
                         outputSymbol |-> outputSymbol], env, start), "hashes")
    ELSE SubmitBasketSwap(ApproveBasketSwapper(validInputs, 1, {}, start),
                          BuildSwapInputs(validInputs, 1, outputSymbol, <<>>), env)

executeBasketSwapsRun(inputs, outputSymbol, env, start) ==
    IF env.receiver = "" THEN Throws(start, "Wallet not connected")
    ELSE IF ~env.isCorrectChain THEN Throws(start, "Please switch to Base Sepolia")
    ELSE IF ~getTokenBySymbol(outputSymbol).defined
    THEN Throws(start, "Output token not supported")
    ELSE BasketSwapsOf(Filter(inputs, 1), outputSymbol, env, start)

\* The environment of a request: no account connected, the wrong chain, or a
\* connected account on the right chain whose user confirms so many prompts.
Environment(receiver, isCorrectChain, accepts) ==
    [receiver |-> receiver, isCorrectChain |-> isCorrectChain, accepts |-> accepts]
Environments ==
    {Environment("", TRUE, MaxAccepts), Environment(Trader, FALSE, MaxAccepts)}
    \cup {Environment(Trader, TRUE, n) : n \in 0..MaxAccepts}

StartRun(env) == Run(<<>>, env.accepts, [threw |-> FALSE, error |-> ""])

\* the form takes a request when it shows no outcome
Idle == call.fn = "none"

\* a request runs to its end, then the page shows its outcome
executeSingleSwap(params, env) ==
    /\ Idle
    /\ call' = [fn |-> "executeSingleSwap", params |-> params, env |-> env]
    /\ LET run == executeSingleSwapRun(params, env, StartRun(env))
       IN  /\ ret' = run.result
           /\ submitted' = run.submitted
           /\ last' = Result("executeSingleSwap",
                             IF run.result.threw THEN run.result.error ELSE "ok")
    /\ UNCHANGED <<hookVars, now, tokenVars>>

executeBasketSwaps(inputs, outputSymbol, env) ==
    /\ Idle
    /\ call' = [fn |-> "executeBasketSwaps", inputs |-> inputs,
                outputSymbol |-> outputSymbol, env |-> env]
    /\ LET run == executeBasketSwapsRun(inputs, outputSymbol, env, StartRun(env))
       IN  /\ ret' = run.result
           /\ submitted' = run.submitted
           /\ last' = Result("executeBasketSwaps",
                             IF run.result.threw THEN run.result.error ELSE "ok")
    /\ UNCHANGED <<hookVars, now, tokenVars>>

\* the outcome is dismissed and the form is ready for the next request
Dismiss ==
    /\ call.fn # "none"
    /\ call' = [fn |-> "none"]
    /\ ret' = "none"
    /\ submitted' = <<>>
    /\ last' = Result("dismiss", "ok")
    /\ UNCHANGED <<hookVars, now, tokenVars>>

\* what the form sends: assets with and without pools, quantities (0.01 of a
\* token, a few units of 10^-8) that are positive, zero, empty or no plain number
Input(symbol, amount) == [symbol |-> symbol, amount |-> amount]
InputChoices ==
    {Input("USDT", Decimal(1000000)), Input("USDC", Decimal(1000000)),
     Input("weth", Decimal(MaxDust)), Input("FOO", Decimal(1000000)),
     Input("", Decimal(1000000)), Input("USDT", Zero), Input("USDC", Empty),
     Input("USDT", Trailing(1000000))}
OutputSymbolChoices == {"WETH", "USDT", "FOO"}

RECURSIVE InputLists(_)
InputLists(n) ==
    IF n = 0 THEN {<<>>}
    ELSE LET shorter == InputLists(n - 1)
         IN  shorter \cup {Append(l, i) : l \in shorter, i \in InputChoices}

NextUI ==
    \/ \E i \in InputChoices, o \in OutputSymbolChoices, env \in Environments :
          executeSingleSwap([inputSymbol |-> i.symbol, inputAmount |-> i.amount,
                             outputSymbol |-> o], env)
    \/ \E l \in InputLists(MaxInputs), o \in OutputSymbolChoices, env \in Environments :
          executeBasketSwaps(l, o, env)
    \/ Dismiss

SpecUI == Init /\ [][NextUI]_vars

(***************************************************************************)
(* Authorizations: basket requests of the client for assets that repeat    *)
(* (also under another spelling), that have no pool or are not listed,     *)
(* next to the BasketSwapper executing baskets whose legs repeat a token.  *)
(***************************************************************************)
BasketRequests ==
    {<<Input("USDT", Decimal(1000000)), Input("usdt", Decimal(MaxDust))>>,
     <<Input("USDT", Decimal(1000000)), Input("WBTC", Decimal(100))>>,
     <<Input("usdt", Decimal(1000000)), Input("WBTC", Decimal(100)),
       Input("USDT", Decimal(1000000))>>,
     <<Input("USDT", Decimal(1000000)), Input("", Decimal(100)),
       Input("USDT", Decimal(1000000))>>,
     <<Input("USDT", Decimal(1000000)), Input("USDC", Decimal(1000000))>>,
     <<Input("USDT", Decimal(1000000)), Input("FOO", Decimal(1000000)),
       Input("WBTC", Decimal(100))>>}

NextApproval ==
    \/ \E l \in BasketRequests, env \in Environments : executeBasketSwaps(l, "WETH", env)
    \/ Dismiss
    \/ \E b \in Baskets(MaxLegs), r \in Receivers : basketSwap(Trader, b, r, MaxTime)
    \/ \E t \in Tokens \ {"OUT"} : approve(Trader, t, "swapper")

SpecApproval == Init /\ [][NextApproval]_vars

(***************************************************************************)
(* Properties of the hook.                                                 *)
(***************************************************************************)

\* C1: ledger conservation. In every reachable state, for every pool,
\* totalInvestedAmount equals the sum of the amounts of its IdlePosition entries.
LedgerConservation ==
    \A p \in Pools : totalInvestedAmount[p] = SumAmounts(idlePositions[p])

\* C3: withdrawal fails closed. A withdrawInvestedLiquidity whose position index
\* is outside the pool's list, or whose amount exceeds the position's remaining
\* amount, reverts and leaves every position list and invested total unchanged.
WithdrawFailsClosed ==
    [][last'.op = "withdrawInvestedLiquidity" =>
          \/ /\ last'.err # "ok"
             /\ idlePositions' = idlePositions
             /\ totalInvestedAmount' = totalInvestedAmount
          \/ ~\E c \in Callers, p \in Pools, i \in 0..MaxPositions, a \in 0..MaxInvested :
                /\ IF i < Len(idlePositions[p])
                   THEN a > idlePositions[p][i + 1].amount
                   ELSE TRUE
                /\ withdrawInvestedLiquidity(c, p, i, a)]_vars

\* C3 witness: the backend asked for more than a position holds and was refused.
WithdrawFailsClosedWitness ==
    /\ last = Result("withdrawInvestedLiquidity", "Insufficient invested amount")
    /\ \E p \in Pools : idlePositions[p] # <<>>

\* C4: backend-only gating. investIdleLiquidity and withdrawInvestedLiquidity
\* called by an identity other than the current backendService (the owner
\* included, and everyone while no backend is designated) revert with
\* Unauthorized and leave every position list and invested total unchanged.
BackendOnlyGating ==
    [][last'.op \in {"investIdleLiquidity", "withdrawInvestedLiquidity"} =>
          \/ /\ last'.err = "Unauthorized"
             /\ idlePositions' = idlePositions
             /\ totalInvestedAmount' = totalInvestedAmount
          \/ ~\E c \in Callers \ {backendService}, p \in Pools, a \in 0..MaxInvested :
                \/ \E v \in Venues : investIdleLiquidity(c, p, v[2], a, v[1])
                \/ \E i \in 0..MaxPositions : withdrawInvestedLiquidity(c, p, i, a)]_vars

\* C4 witness: with a backend designated and capital invested, a call to
\* investIdleLiquidity was refused as Unauthorized.
BackendOnlyGatingWitness ==
    /\ last = Result("investIdleLiquidity", "Unauthorized")
    /\ backendService # ZeroAddress
    /\ \E p \in Pools : totalInvestedAmount[p] > 0

\* C5: owner-only administration. The three setters called by an identity other
\* than the owner revert with Unauthorized and leave backendService, every
\* allocation and every volume threshold unchanged; no step changes the owner.
OwnerOnlyAdministration ==
    [][ /\ owner' = owner
        /\ \A c \in Callers \ {owner} :
              ( \/ \E b \in BackendChoices \cup {"a3"} : setBackendService(c, b)
                \/ \E u \in Users, a \in AllocationChoices :
                      setUserInvestmentAllocation(c, u, a)
                \/ \E p \in Pools, t \in ThresholdChoices \cup {20} :
                      setVolumeThreshold(c, p, t) )
              => ( /\ last'.err = "Unauthorized"
                   /\ backendService' = backendService
                   /\ userInvestmentAllocation' = userInvestmentAllocation
                   /\ volumeThresholds' = volumeThresholds ) ]_vars

\* C5 witness: after the owner designated a backend, set an allocation and a
\* threshold, a setter call was refused as Unauthorized.
OwnerOnlyAdministrationWitness ==
    /\ last.err = "Unauthorized"
    /\ last.op \in {"setBackendService", "setUserInvestmentAllocation",
                    "setVolumeThreshold"}
    /\ backendService # ZeroAddress
    /\ \E u \in Users : userInvestmentAllocation[u] > 0
    /\ \E p \in Pools : volumeThresholds[p] > 0

AllocationInRange == \A u \in Callers : userInvestmentAllocation[u] \in 0..5000

\* C6: allocation bound. Every stored allocation is within 0..5000; the owner's
\* setUserInvestmentAllocation stores exactly a value of 5000 or less, and with a
\* value above 5000 it reverts and the stored allocations are kept.
AllocationBound ==
    /\ []AllocationInRange
    /\ [][\A u \in Users, a \in AllocationChoices :
             setUserInvestmentAllocation(owner, u, a)
             => IF a <= 5000
                THEN /\ last'.err = "ok"
                     /\ userInvestmentAllocation' =
                            [userInvestmentAllocation EXCEPT ![u] = a]
                ELSE /\ last'.err = "InvalidBasket"
                     /\ userInvestmentAllocation' = userInvestmentAllocation]_vars

\* C6 witness: a user holds the ceiling value 5000 and a later request above the
\* ceiling was refused.
AllocationBoundWitness ==
    /\ last = Result("setUserInvestmentAllocation", "InvalidBasket")
    /\ \E u \in Users : userInvestmentAllocation[u] = 5000


(***************************************************************************)
(* Properties of the basket executor.                                      *)
(***************************************************************************)
BasketOps == {"basketSwap", "basketSwapLowLevel"}

\* C2: a basketSwap call (either version of the executor) with two or more legs
\* in which the exchange of some leg fails leaves every balance of every asset
\* (the caller's input assets, the receiver's output asset), every pool's
\* reserves and every pool's volume counter exactly as they were before the
\* call, also for the legs that ran before the failing one.
BasketAtomicity ==
    [][(last'.op \in BasketOps /\ last'.legs >= 2 /\ last'.failedLeg > 0) =>
          /\ last'.err = "reverted"
          /\ balanceOf' = balanceOf
          /\ reserves' = reserves
          /\ poolVolume' = poolVolume]_vars

\* the second leg of a basket failed after the first one had run
BasketAtomicityWitness ==
    /\ last.op = "basketSwapLowLevel"
    /\ last.err = "reverted"
    /\ last.legs >= 2
    /\ last.failedLeg = 2
    /\ \E p \in Pools : poolVolume[p] > 0

\* C10: a basketSwap that completes leaves the hook state (every pool's
\* cumulative volume, last-checked stamp, idle positions and invested total)
\* equal to what the same legs, in the same order, leave when run as standalone
\* exchanges from the same hook state, and the hook's before/after pair has
\* fired exactly once per leg.
BasketVolumeAsStandalone ==
    [][(last'.op = "basketSwap" /\ last'.err = "ok") =>
          ~\E b \in {x \in GoodBaskets(MaxLegs) : Len(x) = last'.legs},
              r \in Receivers, d \in {0, MaxTime} :
              LET alone == StandaloneLoop(World, Trader, b, 0, r, d, now)
              IN  /\ basketSwap(Trader, b, r, d)
                  /\ ~ /\ ~alone.reverted
                       /\ HookState' = alone.w.hook
                       /\ last'.hookCalls = Len(b)
                       /\ alone.w.hookCalls = Len(b)]_vars

\* a two-leg basket completed, and its first leg recalled invested capital
BasketVolumeAsStandaloneWitness ==
    /\ last.op = "basketSwap"
    /\ last.err = "ok"
    /\ last.legs = 2
    /\ last.hookCalls = 2
    /\ poolVolume["p1"] > 0 /\ poolVolume["p2"] > 0
    /\ idlePositions["p1"] # <<>>
    /\ SumAmounts(idlePositions["p1"]) < totalInvestedAmount["p1"]


(***************************************************************************)
(* Properties of the investment calculator.                                *)
(***************************************************************************)
Min(a, b) == IF a < b THEN a ELSE b

HasPool(a, b) == <<a, b>> \in POOL_PAIRS \/ <<b, a>> \in POOL_PAIRS

\* the candidate routes of a pair: the direct route if the pair has a pool, and
\* every route via one other asset that has a pool with both ends
CandidateRoutes(from, to) ==
    {<<from, to>> : x \in {y \in {from} : HasPool(from, to)}}
    \cup {<<from, mid, to>> : mid \in {m \in TokenSymbols \ {from, to} :
                                         HasPool(from, m) /\ HasPool(m, to)}}

EstimatedOutput(route, amountIn) == ParseFloatOrZero(getQuoteForPath(route, amountIn))

\* C8: for every pair from # to that has a candidate route and every input
\* quantity, getPathForPair returns one of the candidate routes, and the
\* estimated output of the returned route is at least the estimated output of
\* every candidate route.
RouteOptimality ==
    call.fn = "getPathForPair" =>
        LET from == toUpperCase(call.fromSymbol)
            to == toUpperCase(call.toSymbol)
        IN  (from # to /\ CandidateRoutes(from, to) # {}) =>
                /\ ret.path \in CandidateRoutes(from, to)
                /\ \A route \in CandidateRoutes(from, to) :
                      EstimatedOutput(ret.path, call.amountIn)
                          >= EstimatedOutput(route, call.amountIn)

\* a route via an intermediate asset was returned because rounding makes it
\* yield strictly more than the direct route
RouteOptimalityWitness ==
    /\ call.fn = "getPathForPair"
    /\ Len(ret.path) = 3
    /\ <<ret.path[1], ret.path[3]>> \in CandidateRoutes(ret.path[1], ret.path[3])
    /\ EstimatedOutput(ret.path, call.amountIn)
           > EstimatedOutput(<<ret.path[1], ret.path[3]>>, call.amountIn)


(***************************************************************************)
(* Properties of the client's swap executor.                               *)
(***************************************************************************)
\* the inputs of a request that have an asset and a positive quantity
PositiveInputs(inputs) ==
    {n \in 1..Len(inputs) :
        /\ inputs[n].symbol # ""
        /\ inputs[n].amount.kind \in {"decimal", "trailing"}
        /\ inputs[n].amount.units > 0}

\* C9: an executeBasketSwaps request with exactly one valid input submits the
\* transactions that executeSingleSwap submits for that input asset, quantity
\* and target in the same environment (hence the same route and the same
\* minimum output, which the exchange transaction carries), resolves exactly
\* when that call resolves, and submits nothing to the BasketSwapper and no
\* approval of it.
SingleInputFallback ==
    (call.fn = "executeBasketSwaps" /\ Cardinality(PositiveInputs(call.inputs)) = 1) =>
        LET n == CHOOSE k \in PositiveInputs(call.inputs) : TRUE
            single == executeSingleSwapRun(
                          [inputSymbol |-> call.inputs[n].symbol,
                           inputAmount |-> call.inputs[n].amount,
                           outputSymbol |-> call.outputSymbol],
                          call.env, StartRun(call.env))
        IN  /\ submitted = single.submitted
            /\ ret.threw = single.result.threw
            /\ \A k \in 1..Len(submitted) :
                  /\ submitted[k].address # BASKET_SWAPPER_ADDRESS
                  /\ submitted[k].spender # BASKET_SWAPPER_ADDRESS

\* a basket request whose only valid input is routed over an intermediate asset
\* went through: the router was approved and one multi-hop exchange submitted
SingleInputFallbackWitness ==
    /\ call.fn = "executeBasketSwaps"
    /\ Len(call.inputs) = 2
    /\ Cardinality(PositiveInputs(call.inputs)) = 1
    /\ ~ret.threw
    /\ Len(submitted) = 2
    /\ submitted[2].functionName = "swapExactTokensForTokens"
    /\ Len(submitted[2].pathKeys) = 2
    /\ submitted[2].amountOutMin.units > 0

(***************************************************************************)
(* Properties of volume tracking.                                          *)
(***************************************************************************)

\* C11: volume tracking. Every exchange through a pool increases that pool's
\* poolVolume by exactly the absolute value of amountSpecified and sets its
\* lastVolumeCheck to block.timestamp, leaving the other pools' counters and
\* stamps alone; no step decreases any poolVolume; a liquidity addition stamps
\* lastVolumeCheck of its pool and changes no poolVolume.
VolumeTracking ==
    [][/\ \A p \in Pools : poolVolume'[p] >= poolVolume[p]
       /\ last'.op = "swap" =>
             ~\E p \in Pools, a \in (-MaxSwap..MaxSwap) \ {0} :
                 /\ Swap(p, a)
                 /\ ~ /\ poolVolume' = [poolVolume EXCEPT ![p] = @ + Abs(a)]
                      /\ lastVolumeCheck' = [lastVolumeCheck EXCEPT ![p] = now]
       /\ last'.op = "addLiquidity" =>
             ~\E p \in Pools :
                 /\ AddLiquidity(p)
                 /\ ~ /\ poolVolume' = poolVolume
                      /\ lastVolumeCheck' = [lastVolumeCheck EXCEPT ![p] = now]]_vars

\* C11 witness: in a later block an exchange that recalled invested capital was
\* counted and stamped on the first pool, after a liquidity addition had stamped
\* the second pool without any volume there.
VolumeTrackingWitness ==
    /\ last.op = "swap"
    /\ now > 0
    /\ poolVolume["p1"] = MaxVolume
    /\ lastVolumeCheck["p1"] = now
    /\ SumAmounts(idlePositions["p1"]) < totalInvestedAmount["p1"]
    /\ poolVolume["p2"] = 0
    /\ lastVolumeCheck["p2"] = now

(***************************************************************************)
(* Properties of the quote engine.                                         *)
(***************************************************************************)
HasUnknownPrice(route) ==
    \E k \in 1..Len(route) : toUpperCase(route[k]) \notin DOMAIN TOKEN_PRICES_USDT

\* units * price(from) / price(to), printed with min(decimals of to, 8) decimals
HopOutput(from, to, units) ==
    LET pf == TOKEN_PRICES_USDT[toUpperCase(from)]
        pt == TOKEN_PRICES_USDT[toUpperCase(to)]
        g == GCD(pf, pt)
        n == pf \div g
        d == pt \div g
        whole == (units \div d) * n + ((units % d) * n) \div d
        rest == ((units % d) * n) % d
        grid == IF TokenDecimals[toUpperCase(to)] < 8 THEN 100 ELSE 1
    IN  IF grid = 1
        THEN whole + (IF 2 * rest >= d THEN 1 ELSE 0)
        ELSE ((whole + 50) \div 100) * 100

RECURSIVE ChainedConversion(_, _, _)
ChainedConversion(route, k, units) ==
    IF k >= Len(route) THEN units
    ELSE ChainedConversion(route, k + 1, HopOutput(route[k], route[k + 1], units))

\* C12: quote sentinel. For every route of two or more assets, getQuoteForPath
\* returns the string '0' when an asset of the route has no listed price or the
\* input quantity does not parse to a finite number greater than zero;
\* otherwise it returns a number equal to the chained conversion, each hop
\* being input * price(from) / price(to) printed to the precision of the hop's
\* output asset.  The call changes no state besides its own result, and the
\* result is a function of the arguments.
QuoteSentinel ==
    [][call'.fn = "getQuoteForPath" =>
          /\ Len(call'.path) >= 2
          /\ IF HasUnknownPrice(call'.path) \/ ~IsPositiveNumber(call'.amountIn)
             THEN ret' = Zero
             ELSE /\ IsNumber(ret')
                  /\ ret'.units = ChainedConversion(call'.path, 1, call'.amountIn.units)
          /\ UNCHANGED <<hookVars, now, tokenVars, submitted>>
          /\ ret' = getQuoteForPath(call'.path, call'.amountIn)]_vars

\* C12 witness: a three-asset route whose last asset has no price was quoted
\* for a positive quantity and gave the sentinel.
QuoteSentinelWitness ==
    /\ call.fn = "getQuoteForPath"
    /\ Len(call.path) = 3
    /\ getPriceInUsdt(call.path[1]) > 0 /\ getPriceInUsdt(call.path[2]) > 0
    /\ getPriceInUsdt(call.path[3]) = 0
    /\ IsPositiveNumber(call.amountIn)
    /\ ret = Zero

\* C13: quote monotonicity. For a route whose assets all have a price and
\* input quantities 0 < q1 <= q2, the estimate for q1 is not greater than the
\* estimate for q2, the rounding to the output asset's precision after every
\* hop included.
QuoteMonotonicity ==
    (call.fn = "getQuoteForPath" /\ ~HasUnknownPrice(call.path)
        /\ IsPositiveNumber(call.amountIn)) =>
    \A q1 \in {q \in QuoteAmountChoices(call.path[1]) :
                  IsPositiveNumber(q) /\ q.units <= call.amountIn.units} :
        ParseFloatOrZero(getQuoteForPath(call.path, q1)) <= ParseFloatOrZero(ret)

\* C13 witness: a two-hop quote of a positive quantity came out positive while
\* a smaller positive quantity on the same route is rounded away to nothing.
QuoteMonotonicityWitness ==
    /\ call.fn = "getQuoteForPath"
    /\ Len(call.path) = 3
    /\ ~HasUnknownPrice(call.path)
    /\ IsPositiveNumber(call.amountIn)
    /\ ParseFloatOrZero(ret) > 0
    /\ \E q1 \in QuoteAmountChoices(call.path[1]) :
          /\ IsPositiveNumber(q1)
          /\ q1.units < call.amountIn.units
          /\ ParseFloatOrZero(getQuoteForPath(call.path, q1)) = 0

(***************************************************************************)
(* Properties of the swap executor: input errors and missing pools.        *)
(***************************************************************************)
\* a quantity that is a plain decimal number greater than zero
IsPositiveQuantity(amount) == amount.kind = "decimal" /\ amount.units > 0

IsResolvable(symbol) == toUpperCase(symbol) \in TokenSymbols

HasInputError(inputs) ==
    \/ inputs = <<>>
    \/ \E n \in 1..Len(inputs) :
          ~IsPositiveQuantity(inputs[n].amount) \/ ~IsResolvable(inputs[n].symbol)

\* C14: input errors are rejected before any state mutation. An
\* executeBasketSwaps request that is empty, or holds an input whose quantity is
\* not a positive number, or an input whose asset cannot be resolved, throws
\* and has handed no transaction to the wallet, neither an approval nor a swap.
InputErrorsRejectedFirst ==
    (call.fn = "executeBasketSwaps" /\ HasInputError(call.inputs)) =>
        (ret.threw /\ submitted = <<>>)

\* the first input of a request that has no direct pool with the target (0: none)
RECURSIVE FirstWithoutPool(_, _, _)
FirstWithoutPool(inputs, outputSymbol, n) ==
    IF n > Len(inputs) THEN 0
    ELSE IF <<toUpperCase(inputs[n].symbol), toUpperCase(outputSymbol)>> \notin POOL_PAIRS
            /\ <<toUpperCase(outputSymbol), toUpperCase(inputs[n].symbol)>> \notin POOL_PAIRS
    THEN n
    ELSE FirstWithoutPool(inputs, outputSymbol, n + 1)

HasNoRoute(fromSymbol, toSymbol) ==
    /\ toUpperCase(fromSymbol) # toUpperCase(toSymbol)
    /\ CandidateRoutes(toUpperCase(fromSymbol), toUpperCase(toSymbol)) = {}

IsNoRouteRequest ==
    /\ call.fn = "executeSingleSwap"
    /\ call.env.receiver # "" /\ call.env.isCorrectChain
    /\ HasNoRoute(call.params.inputSymbol, call.params.outputSymbol)

FallbackRouteReturned ==
    getPathForPair(call.params.inputSymbol, call.params.outputSymbol,
                   call.params.inputAmount).path
        = <<toUpperCase(call.params.inputSymbol), toUpperCase(call.params.outputSymbol)>>

\* C16 as stated: for a pair from # to with no direct pool and no intermediate
\* asset, getPathForPair returns [from, to] and executeSingleSwap on the pair
\* fails with the no-pool error without submitting an exchange to the router.
NoRouteFailsWithNoPool ==
    IsNoRouteRequest =>
        /\ FallbackRouteReturned
        /\ ret.threw
        /\ ret.error = "No pool for this pair"
        /\ \A k \in 1..Len(submitted) :
              submitted[k].functionName # "swapExactTokensForTokens"

\* C16 amended: for such a pair getPathForPair returns [from, to] and
\* executeSingleSwap fails without handing any transaction to the wallet,
\* neither an approval nor an exchange; the error is 'Token not supported on
\* this chain', because every pair of listed assets is connected (all have a
\* pool with USDT) and a pair without a route holds an asset that is not listed.
NoRouteNeverExecuted ==
    IsNoRouteRequest =>
        /\ FallbackRouteReturned
        /\ ret.threw
        /\ ret.error = "Token not supported on this chain"
        /\ submitted = <<>>
        /\ ~IsResolvable(call.params.inputSymbol) \/ ~IsResolvable(call.params.outputSymbol)

\* C16 witness: 0.01 USDT for the unlisted FOO, asked by a user who would have
\* confirmed every prompt, was refused with nothing submitted.
NoRouteNeverExecutedWitness ==
    /\ call.fn = "executeSingleSwap"
    /\ call.env.receiver # "" /\ call.env.isCorrectChain /\ call.env.accepts = MaxAccepts
    /\ call.params.inputSymbol = "USDT" /\ call.params.outputSymbol = "FOO"
    /\ IsPositiveQuantity(call.params.inputAmount)
    /\ ret.threw
    /\ submitted = <<>>

(***************************************************************************)
(* Properties of the rebalancer.                                           *)
(***************************************************************************)
HeldIn(tokens, currency) == TotalOf(tokens, currency, 1)

\* C17: rebalancing to an even split. When every holding is in one of the
\* pool's two assets and no price ratio is supplied, calculate5050Ratio returns
\* amount0 and amount1 that differ by at most one unit and sum to the total
\* held, and a holding of two or more units entirely in asset 0 yields a plan
\* that is not empty and swaps asset 0 into asset 1.
EvenSplit ==
    (/\ call.fn = "calculate5050Ratio"
     /\ ~call.currentPrice.defined
     /\ TokensToSwap(call.tokens, call.poolKey, 1) = <<>>) =>
        /\ ~ret.threw
        /\ ret.value.amount0 - ret.value.amount1 \in {-1, 0, 1}
        /\ ret.value.amount0 + ret.value.amount1
              = HeldIn(call.tokens, call.poolKey.currency0)
                + HeldIn(call.tokens, call.poolKey.currency1)
        /\ (HeldIn(call.tokens, call.poolKey.currency1) = 0
            /\ HeldIn(call.tokens, call.poolKey.currency0) >= 2) =>
               /\ ret.value.swaps # <<>>
               /\ ret.value.swaps[1].from = call.poolKey.currency0
               /\ ret.value.swaps[1].to = call.poolKey.currency1

(***************************************************************************)
(* Properties of recall and withdrawal.                                    *)
(***************************************************************************)
\* the positions of a list that a step drained in part: something was taken
\* and something is left
PartlyDrained(pre, post) ==
    {k \in 1..Len(pre) : post[k].amount > 0 /\ post[k].amount < pre[k].amount}

\* every position keeps its place and its venue and loses between nothing and
\* all it holds
TakenWithinHoldings(pre, post) ==
    /\ Len(post) = Len(pre)
    /\ \A k \in 1..Len(pre) :
          /\ post[k].amount >= 0
          /\ post[k].amount <= pre[k].amount
          /\ post[k] = [pre[k] EXCEPT !.amount = post[k].amount]

\* C20: just-in-time recall amount. An exchange on a pool whose requested
\* quantity q is greater than the pool's volume threshold divided by 10 recalls
\* min(q, sum of the pool's position amounts) in total, every position losing at
\* most what it holds and at most one position being drained in part; a smaller
\* exchange recalls nothing.  The recall is done before the volume counter is
\* updated: it is computed from the positions and the threshold alone and
\* leaves the counter and the stamp as they were, and the step's volume and
\* stamp are then written over the recalled state.
RecallAmount ==
    [][last'.op = "swap" =>
          ~\E p \in Pools, a \in (-MaxSwap..MaxSwap) \ {0} :
              LET q == Abs(a)
                  pre == idlePositions[p]
                  post == idlePositions'[p]
                  recalled == recallLiquidityFromYield(HookState, p, q)
              IN  /\ Swap(p, a)
                  /\ ~ /\ TakenWithinHoldings(pre, post)
                       /\ SumAmounts(pre) - SumAmounts(post) =
                             IF 10 * q > volumeThresholds[p]
                             THEN Min(q, SumAmounts(pre))
                             ELSE 0
                       /\ Cardinality(PartlyDrained(pre, post)) <= 1
                       /\ recalled.poolVolume = poolVolume
                       /\ recalled.lastVolumeCheck = lastVolumeCheck
                       /\ 10 * q > volumeThresholds[p] => recalled.idlePositions = idlePositions'
                       /\ poolVolume'[p] = poolVolume[p] + q]_vars

\* C20 witness: an exchange of 2 on a pool holding three positions drained the
\* first and took part of the second, and was counted.
RecallAmountWitness ==
    /\ last.op = "swap"
    /\ Len(idlePositions["p1"]) = 3
    /\ idlePositions["p1"][1].amount = 0
    /\ idlePositions["p1"][2].amount = 1
    /\ idlePositions["p1"][3].amount = MaxRecallAmount
    /\ totalInvestedAmount["p1"] = SumAmounts(idlePositions["p1"]) + 2
    /\ poolVolume["p1"] = 2

\* C18: no over-withdrawal under interleaving. Whatever the order of
\* withdrawInvestedLiquidity calls and exchanges that recall, a step takes out of
\* a position at most what the position still holds (a withdrawal that asks for
\* more is refused), so that the total taken out of a position never exceeds
\* what was invested in it; no position amount and no invested total is ever
\* below zero.
NoOverWithdrawal ==
    [][/\ \A p \in Pools :
             /\ totalInvestedAmount'[p] >= 0
             /\ \A k \in 1..Len(idlePositions'[p]) : idlePositions'[p][k].amount >= 0
       /\ last'.op = "swap" =>
             \A p \in Pools : TakenWithinHoldings(idlePositions[p], idlePositions'[p])
       /\ last'.op = "withdrawInvestedLiquidity" =>
             ~\E p \in Pools, i \in 0..MaxRecallPositions, a \in 0..MaxRecallAmount :
                 /\ withdrawInvestedLiquidity(backendService, p, i, a)
                 /\ ~ IF i < Len(idlePositions[p]) /\ a <= idlePositions[p][i + 1].amount
                      THEN /\ last'.err = "ok"
                           /\ idlePositions'[p] =
                                 WithdrawFrom(idlePositions[p], i, a)
                           /\ totalInvestedAmount'[p] = totalInvestedAmount[p] - a
                           /\ SumAmounts(idlePositions'[p]) = SumAmounts(idlePositions[p]) - a
                      ELSE /\ last'.err # "ok"
                           /\ idlePositions' = idlePositions
                           /\ totalInvestedAmount' = totalInvestedAmount]_vars

\* C18 witness: after an exchange had recalled part of a position, a withdrawal
\* of an amount that the pool's invested total still covers, but the position
\* does not, was refused.
NoOverWithdrawalWitness ==
    /\ last = Result("withdrawInvestedLiquidity", "Insufficient invested amount")
    /\ poolVolume["p1"] > 0
    /\ Len(idlePositions["p1"]) = 1
    /\ idlePositions["p1"][1].amount = 1
    /\ totalInvestedAmount["p1"] = MaxRecallAmount

\* C19: position lifecycle. investIdleLiquidity appends one position with the
\* given venue, asset and amount and adds the amount to the invested total; a
\* successful withdrawal lowers the position and the total by the amount and
\* removes the entry exactly when it reaches zero; so after any sequence of
\* operations no entry with amount zero remains in a pool's list.
NoZeroEntryRemains ==
    \A p \in Pools : \A k \in 1..Len(idlePositions[p]) : idlePositions[p][k].amount # 0

(***************************************************************************)
(* C21: recall is oldest position first.  After any sequence of invests    *)
(* and withdrawals, an exchange's recall never reduces a position of a     *)
(* pool while another position of that pool with an earlier creation time  *)
(* still holds an amount greater than zero.                                *)
(***************************************************************************)
\* position i of the pool was reduced by the step (a recall moves no entry)
ReducedByRecall(p, i) == idlePositions'[p][i].amount < idlePositions[p][i].amount

RecallOldestFirst ==
    [][last'.op = "swap" =>
          \A p \in Pools : \A i, j \in 1..Len(idlePositions[p]) :
              ReducedByRecall(p, i) /\ idlePositions[p][j].timestamp < idlePositions[p][i].timestamp
                 => idlePositions'[p][j].amount = 0]_vars

(***************************************************************************)
(* C22: tie-breaking.  When several candidate routes have the same         *)
(* greatest estimated output, getPathForPair returns the one generated     *)
(* first: the direct route is generated before every route via an          *)
(* intermediate, and the routes via an intermediate are generated in the   *)
(* fixed candidate order.                                                  *)
(***************************************************************************)
\* the place of a candidate route in the order of generation
GenerationRank(route) ==
    IF Len(route) = 2 THEN 0 ELSE IndexIn(INTERMEDIATE_CANDIDATES, route[2])

FirstFoundWinsTies ==
    call.fn = "getPathForPair" =>
        LET from == toUpperCase(call.fromSymbol)
            to == toUpperCase(call.toSymbol)
        IN  (from # to /\ CandidateRoutes(from, to) # {}) =>
                /\ ret.path \in CandidateRoutes(from, to)
                /\ \A route \in CandidateRoutes(from, to) :
                      EstimatedOutput(route, call.amountIn)
                          >= EstimatedOutput(ret.path, call.amountIn)
                      => GenerationRank(ret.path) <= GenerationRank(route)
                /\ ret.reason = (IF GenerationRank(ret.path) = 0
                                 THEN "direct_pool" ELSE "via_intermediate")

\* a direct route was returned although a route via an intermediate has the
\* same estimated output, which is greater than zero
FirstFoundWinsTiesWitness ==
    /\ call.fn = "getPathForPair"
    /\ Len(ret.path) = 2
    /\ EstimatedOutput(ret.path, call.amountIn) > 0
    /\ \E route \in CandidateRoutes(ret.path[1], ret.path[2]) :
          /\ Len(route) = 3
          /\ EstimatedOutput(route, call.amountIn)
                 = EstimatedOutput(ret.path, call.amountIn)

(***************************************************************************)
(* C23: one authorization per unique asset.  An executeBasketSwaps request *)
(* with two or more valid inputs never submits two authorizations for one  *)
(* input asset address, submits exactly one per distinct input asset when  *)
(* every input asset is listed and the wallet confirms them, and submits   *)
(* every authorization before the single basketSwap transaction, which is  *)
(* submitted only after every distinct asset was authorized; inside        *)
(* basketSwap the router is approved at most once per input token.         *)
(***************************************************************************)
\* the addresses of the request's valid inputs that are listed
InputAssets(inputs) ==
    {toUpperCase(inputs[n].symbol) :
        n \in {k \in PositiveInputs(inputs) : IsResolvable(inputs[k].symbol)}}

Authorizations == {n \in 1..Len(submitted) : submitted[n].functionName = "approve"}

IsSlippageFloor(min, q, decimals) ==
    IF q <= 0 THEN min.units = 0 /\ min.rem = 0
    ELSE LET whole == 4 * (q \div 5) + (4 * (q % 5)) \div 5
             fifths == (4 * (q % 5)) % 5
         IN  /\ min.units <= q
             /\ min.decimals = decimals
             /\ CASE decimals > 8 -> min.units = whole /\ min.rem = 2000 * fifths
                  [] decimals = 8 ->
                        /\ min.units = whole + (IF 2 * fifths >= 5 THEN 1 ELSE 0)
                        /\ min.rem = 0
                  [] OTHER ->
                        /\ min.units % 100 = 0
                        /\ 2 * Abs(5 * (min.units - whole) - fifths) <= 5 * 100
                        /\ min.rem = 0

\* the greatest estimated output over the candidate routes of a pair
BestEstimate(from, to, amountIn) ==
    LET outputs == {EstimatedOutput(route, amountIn) : route \in CandidateRoutes(from, to)}
    IN  CHOOSE best \in outputs : \A out \in outputs : out <= best

IsPositiveInput(i) ==
    i.symbol # "" /\ i.amount.kind \in {"decimal", "trailing"} /\ i.amount.units > 0

\* the quote behind a leg of the request in call: over the best route for a
\* single swap, over the direct route for a leg of a basket
RoutedQuote(symbol, amount) ==
    BestEstimate(toUpperCase(symbol), toUpperCase(call.outputSymbol), amount)
DirectQuote(symbol, amount) ==
    EstimatedOutput(<<toUpperCase(symbol), toUpperCase(call.outputSymbol)>>, amount)

SlippageFloor ==
    \A n \in 1..Len(submitted) :
        LET decimals == TokenDecimals[toUpperCase(
                            IF call.fn = "executeSingleSwap" THEN call.params.outputSymbol
                            ELSE call.outputSymbol)]
        IN  /\ (call.fn = "executeSingleSwap"
                 /\ submitted[n].functionName = "swapExactTokensForTokens") =>
                  IsSlippageFloor(submitted[n].amountOutMin,
                      BestEstimate(toUpperCase(call.params.inputSymbol),
                                   toUpperCase(call.params.outputSymbol),
                                   call.params.inputAmount),
                      decimals)
            /\ (call.fn = "executeBasketSwaps"
                 /\ submitted[n].functionName = "swapExactTokensForTokens") =>
                  LET only == SelectSeq(call.inputs, IsPositiveInput)[1]
                  IN  IsSlippageFloor(submitted[n].amountOutMin,
                                      RoutedQuote(only.symbol, only.amount), decimals)
            /\ (call.fn = "executeBasketSwaps"
                 /\ submitted[n].functionName = "basketSwap") =>
                  LET legs == SelectSeq(call.inputs, IsPositiveInput)
                  IN  /\ Len(submitted[n].swapInputs) = Len(legs)
                      /\ \A k \in 1..Len(legs) :
                            IsSlippageFloor(submitted[n].swapInputs[k].amountOutMin,
                                            DirectQuote(legs[k].symbol, legs[k].amount),
                                            decimals)

\* a basket was submitted whose leg has a positive floor below its quote, after
\* rounding to the output asset's six decimals
SlippageFloorWitness ==
    /\ call.fn = "executeBasketSwaps"
    /\ ~ret.threw
    /\ Len(submitted) > 0
    /\ submitted[Len(submitted)].functionName = "basketSwap"
    /\ \E k \in 1..Len(submitted[Len(submitted)].swapInputs) :
          LET min == submitted[Len(submitted)].swapInputs[k].amountOutMin
          IN  /\ min.decimals = 6
              /\ min.units > 0
              /\ min.units < DirectQuote(call.inputs[k].symbol, call.inputs[k].amount)
              /\ 5 * min.units # 4 * DirectQuote(call.inputs[k].symbol, call.inputs[k].amount)

(***************************************************************************)
(* C25: splitting a foreign holding.  For every holding of amount x in an  *)
(* asset that is neither of the pool's two assets, the plan returned by    *)
(* calculate5050Ratio holds exactly two swaps for it, floor(x/2) into      *)
(* asset 0 followed by x - floor(x/2) into asset 1, which sum to x; these  *)
(* pairs are the end of the plan, in the order of the holdings.  For an    *)
(* empty list of holdings it returns amounts 0 and 0 and an empty plan.    *)
(***************************************************************************)
IsPoolAsset(address) ==
    toLowerCase(address) \in {toLowerCase(RatioPoolKey.currency0),
                              toLowerCase(RatioPoolKey.currency1)}
IsForeignHolding(holding) == ~IsPoolAsset(holding.token)
IsForeignSwap(swap) == ~IsPoolAsset(swap.from)

\* floor(x / 2)
HalfOf(x) == CHOOSE h \in 0..x : 2 * h <= x /\ x < 2 * h + 2

ForeignSplit ==
    call.fn = "calculate5050Ratio" =>
        /\ call.tokens = <<>> => (~ret.threw /\ ret.value = Plan(0, 0, <<>>))
        /\ ~ret.threw =>
              LET foreign == SelectSeq(call.tokens, IsForeignHolding)
                  swaps == ret.value.swaps
                  split == SelectSeq(swaps, IsForeignSwap)
              IN  /\ Len(split) = 2 * Len(foreign)
                  /\ split = SubSeq(swaps, Len(swaps) - Len(split) + 1, Len(swaps))
                  /\ \A k \in 1..Len(foreign) :
                        /\ split[2 * k - 1] = [from |-> foreign[k].token,
                                               to |-> call.poolKey.currency0,
                                               amount |-> HalfOf(foreign[k].amount)]
                        /\ split[2 * k] = [from |-> foreign[k].token,
                                           to |-> call.poolKey.currency1,
                                           amount |-> foreign[k].amount
                                                         - HalfOf(foreign[k].amount)]
                        /\ split[2 * k - 1].amount + split[2 * k].amount
                               = foreign[k].amount

\* a plan that swaps between the pool's assets and then splits a foreign
\* holding of an odd amount
ForeignSplitWitness ==
    /\ call.fn = "calculate5050Ratio"
    /\ ~ret.threw
    /\ Len(ret.value.swaps) = 3
    /\ ~IsForeignSwap(ret.value.swaps[1])
    /\ ret.value.swaps[2].amount + 1 = ret.value.swaps[3].amount
    /\ ret.value.swaps[2].amount > 0

(***************************************************************************)
(* C26: swap-to-last-and-pop removal.  A full withdrawal of position i of  *)
(* a pool succeeds and removes exactly that entry: the entry that was last *)
(* moves to index i (when i was not the last), every other entry keeps its *)
(* index, venue, asset, amount and timestamp, the list is one shorter, the *)
(* pool's invested total decreases by the amount, and the position lists,  *)
(* invested totals and metrics of every other pool are unchanged.          *)
(***************************************************************************)
\* the list of pool p after the step is the list before it without entry i
\* (counted from 0), the last entry standing in its place
RemovedBySwapAndPop(p, i) ==
    LET pre == idlePositions[p]
        post == idlePositions'[p]
    IN  /\ Len(post) = Len(pre) - 1
        /\ \A k \in 1..Len(post) :
              post[k] = IF k = i + 1 THEN pre[Len(pre)] ELSE pre[k]

OtherPoolsUntouched(p) ==
    \A q \in Pools \ {p} :
        /\ idlePositions'[q] = idlePositions[q]
        /\ totalInvestedAmount'[q] = totalInvestedAmount[q]
        /\ poolVolume'[q] = poolVolume[q]
        /\ lastVolumeCheck'[q] = lastVolumeCheck[q]
        /\ volumeThresholds'[q] = volumeThresholds[q]

SwapAndPopRemoval ==
    [][last'.op = "withdrawInvestedLiquidity" =>
          \A p \in Pools : \A i \in 0..(Len(idlePositions[p]) - 1) :
              withdrawInvestedLiquidity(backendService, p, i, idlePositions[p][i + 1].amount)
                 => /\ last'.err = "ok"
                    /\ RemovedBySwapAndPop(p, i)
                    /\ totalInvestedAmount'[p]
                          = totalInvestedAmount[p] - idlePositions[p][i + 1].amount
                    /\ OtherPoolsUntouched(p)]_vars

\* after a full withdrawal the first pool holds two positions and the one
\* created later stands before the one created earlier: the last entry was
\* moved into the place of the entry withdrawn
SwapAndPopRemovalWitness ==
    /\ last.op = "withdrawInvestedLiquidity"
    /\ last.err = "ok"
    /\ last.event.poolId = "p1"
    /\ last.event.amount > 0
    /\ Len(idlePositions["p1"]) = 2
    /\ idlePositions["p1"][1].timestamp > idlePositions["p1"][2].timestamp
    /\ idlePositions["p1"][1].platform = "morpho"
    /\ idlePositions["p2"] # <<>>

(***************************************************************************)
(* C27: small exchanges leave idle capital alone.  An exchange whose       *)
(* requested quantity is at most the pool's volume threshold divided by 10 *)
(* changes only that pool's cumulative volume and last-checked stamp:      *)
(* every idle position, every invested total, every threshold and every    *)
(* other pool's metrics are unchanged.                                     *)
(***************************************************************************)
SmallSwapFrame ==
    [][last'.op = "swap" =>
          \A p \in Pools : \A a \in (-MaxSwap..MaxSwap) \ {0} :
              (10 * Abs(a) <= volumeThresholds[p] /\ Swap(p, a))
                 => /\ idlePositions' = idlePositions
                    /\ totalInvestedAmount' = totalInvestedAmount
                    /\ volumeThresholds' = volumeThresholds
                    /\ poolVolume' = [poolVolume EXCEPT ![p] = @ + Abs(a)]
                    /\ lastVolumeCheck' = [lastVolumeCheck EXCEPT ![p] = now]
                    /\ UNCHANGED <<owner, backendService, userInvestmentAllocation>>]_vars

\* the first exchange on the first pool was a small one, made while the pool
\* had capital invested, none of which was recalled
SmallSwapFrameWitness ==
    /\ last.op = "swap"
    /\ volumeThresholds["p1"] >= 10
    /\ poolVolume["p1"] = 1
    /\ Len(idlePositions["p1"]) >= 2
    /\ \A k \in 1..Len(idlePositions["p1"]) : idlePositions["p1"][k].amount > 0
    /\ SumAmounts(idlePositions["p1"]) = totalInvestedAmount["p1"]

(***************************************************************************)
(* C28: the deposit split keeps amounts non-negative.  In                  *)
(* processUserInvestment, for every list of holdings and every allocation  *)
(* percent, the remaining amount of each holding handed to the rebalancer  *)
(* is never negative, and the investment amount plus the sum of the        *)
(* remaining amounts never exceeds the total deposit.                      *)
(***************************************************************************)
DepositSplitNonNegative ==
    (last.op = "processUserInvestment" /\ last.handed) =>
        /\ \A k \in 1..Len(last.remainingTokens) : last.remainingTokens[k].amount >= 0
        /\ last.invested + TotalDeposit(last.remainingTokens, 1)
               <= TotalDeposit(call.tokens, 1)

(***************************************************************************)
(* C29: the recall event identifies the right position.  The               *)
(* LiquidityRecalled event emitted by a successful                         *)
(* withdrawInvestedLiquidity carries the venue and the asset of the        *)
(* position that was withdrawn from, for partial and for full withdrawals  *)
(* alike, also when the position withdrawn is the last entry or another    *)
(* entry is moved into its index.                                          *)
(***************************************************************************)
RecallEventNamesPosition ==
    [][(last'.op = "withdrawInvestedLiquidity" /\ last'.err = "ok") =>
          \A p \in Pools : \A i \in 0..(Len(idlePositions[p]) - 1) :
              \A a \in 1..idlePositions[p][i + 1].amount :
                  withdrawInvestedLiquidity(backendService, p, i, a)
                     => /\ last'.event.poolId = p
                        /\ last'.event.amount = a
                        /\ last'.event.platform = idlePositions[p][i + 1].platform
                        /\ last'.event.currency = idlePositions[p][i + 1].currency]_vars

(***************************************************************************)
(* C30: the rebalancing plan never oversells.  For every list of holdings  *)
(* and every price ratio, each swap in the plan returned by                *)
(* calculate5050Ratio has an amount no greater than the caller's total     *)
(* holding of that swap's source asset, and the returned amount0 and       *)
(* amount1 are never negative.                                             *)
(***************************************************************************)
NeverOversells ==
    (call.fn = "calculate5050Ratio" /\ ~ret.threw) =>
        /\ \A k \in 1..Len(ret.value.swaps) :
              ret.value.swaps[k].amount
                 <= HeldIn(call.tokens, ret.value.swaps[k].from)
        /\ ret.value.amount0 >= 0
        /\ ret.value.amount1 >= 0

\* at a supplied price the plan sells a positive part of the holding in asset 0
\* for asset 1, and the two swaps of the foreign holding together sell all of it
NeverOversellsWitness ==
    /\ call.fn = "calculate5050Ratio"
    /\ call.currentPrice.defined
    /\ ~ret.threw
    /\ Len(ret.value.swaps) = 3
    /\ toLowerCase(ret.value.swaps[1].from) = toLowerCase(call.poolKey.currency0)
    /\ ret.value.swaps[1].amount > 0
    /\ ret.value.swaps[1].amount < HeldIn(call.tokens, ret.value.swaps[1].from)
    /\ ret.value.swaps[2].amount + ret.value.swaps[3].amount
           = HeldIn(call.tokens, ret.value.swaps[2].from)
====
